---- MODULE Spec2Model ----
(***************************************************************************)
(* The event/tracking state machine of camai: EventDetector                *)
(* (src/src/tracking/events.py) with the geometry helpers it uses          *)
(* (src/src/tracking/geometry.py).                                         *)
(*                                                                         *)
(* Time is an integer number of ticks, TicksPerSec ticks to the second;    *)
(* every time.time() call made inside one update() returns the same value  *)
(* (the clock only advances between calls).  A float ratio such as an IoU  *)
(* is kept as an exact fraction [num, den] in lowest terms and compared by *)
(* cross-multiplication.  A Python dict is a sequence of records in        *)
(* insertion order whose key is the field pid (or id).  A string that the  *)
(* code builds with an f-string is the sequence of its words.              *)
(***************************************************************************)
EXTENDS Integers, Sequences, FiniteSets, TLC

\* ------------------------------------------------------------------ time
TicksPerSec == 10
Secs(n) == n * TicksPerSec

\* ------------------------------------------- configuration (__init__)
vehicle_stop == 5
iou_threshold == [num |-> 3, den |-> 10]
loitering_time == 10
loitering_buffer == 2
loitering_radius == 100
position_history_max == 30
event_cooldown == 30
parking_time == 180
parked_gone_timeout == 60
stopped_gone_timeout == 20
detection_location_cooldown == 30
location_iou_threshold == [num |-> 5, den |-> 10]
vehicle_detected_cooldown == 10
person_detected_cooldown == 30
rate_window == 60
max_notifications_per_minute == 3
startup_scan_delay == 10
repeated_detection_threshold == 2
repeated_detection_window == 120
grid_size == 40
vehicle_stale_timeout == 15
person_stale_timeout == 5
signature_boost == [num |-> 3, den |-> 10]
stationary_iou == [num |-> 15, den |-> 100]
stationary_color_iou == [num |-> 5, den |-> 100]
parking_event_confidence == 90

\* The value time.time() has at construction: far above every threshold, as
\* a unix time is, so that "now - 0" never looks recent.
startup_time == Secs(1000)

VehicleClasses == {"car", "truck"}
NoMatch == -1

\* ------------------------------------------------------------- geometry
Max(a, b) == IF a >= b THEN a ELSE b
Min(a, b) == IF a <= b THEN a ELSE b

bbox_center(bbox) == <<(bbox[1] + bbox[3]) \div 2, (bbox[2] + bbox[4]) \div 2>>

bbox_area(bbox) == (bbox[3] - bbox[1]) * (bbox[4] - bbox[2])

\* The overlap with the two max(0, ...) left out.
inter_unclamped(a, b) ==
    (Min(a[3], b[3]) - Max(a[1], b[1])) * (Min(a[4], b[4]) - Max(a[2], b[2]))

Inter(a, b) ==
    LET x1 == Max(a[1], b[1])
        y1 == Max(a[2], b[2])
        x2 == Min(a[3], b[3])
        y2 == Min(a[4], b[4])
    IN  Max(0, x2 - x1) * Max(0, y2 - y1)

\* Fractions in lowest terms with positive denominators.
RECURSIVE Gcd(_, _)
Gcd(a, b) == IF b = 0 THEN a ELSE Gcd(b, a % b)
Rat(n, d) == LET g == Gcd(d, IF n < 0 THEN -n ELSE n) IN [num |-> n \div g, den |-> d \div g]
RatGe(r, q) == r.num * q.den >= q.num * r.den
RatGt(r, q) == r.num * q.den > q.num * r.den
RatAdd(r, q) == Rat(r.num * q.den + q.num * r.den, r.den * q.den)
RatZero == [num |-> 0, den |-> 1]

\* What a division by zero gives: ZeroDivisionError instead of a value.
ZeroDivision == [num |-> 0, den |-> 0]

\* iou without the test union > 0: the division is reached with a zero
\* union.
iou_unguarded(bbox_a, bbox_b) ==
    IF bbox_area(bbox_a) + bbox_area(bbox_b) - Inter(bbox_a, bbox_b) = 0
    THEN ZeroDivision
    ELSE Rat(Inter(bbox_a, bbox_b),
             bbox_area(bbox_a) + bbox_area(bbox_b) - Inter(bbox_a, bbox_b))

iou(bbox_a, bbox_b) ==
    LET inter == Inter(bbox_a, bbox_b)
        union == bbox_area(bbox_a) + bbox_area(bbox_b) - inter
    IN  IF union > 0 THEN Rat(inter, union) ELSE RatZero

\* The squared distance: distance(p1, p2) <= r  iff  DistSq(p1, p2) <= r * r.
DistSq(p1, p2) == (p1[1] - p2[1]) * (p1[1] - p2[1]) + (p1[2] - p2[2]) * (p1[2] - p2[2])

\* ------------------------------------------------------ dict operations
Keys(dict) == {dict[i].pid : i \in DOMAIN dict}
Has(dict, pid) == \E i \in DOMAIN dict : dict[i].pid = pid
Get(dict, pid) == dict[CHOOSE i \in DOMAIN dict : dict[i].pid = pid]
Put(dict, rec) ==
    IF Has(dict, rec.pid)
    THEN [i \in DOMAIN dict |-> IF dict[i].pid = rec.pid THEN rec ELSE dict[i]]
    ELSE Append(dict, rec)
Del(dict, pid) == SelectSeq(dict, LAMBDA r : r.pid # pid)

SeqMax(s) == CHOOSE m \in {s[i] : i \in DOMAIN s} : \A i \in DOMAIN s : s[i] <= m
SeqMin(s) == CHOOSE m \in {s[i] : i \in DOMAIN s} : \A i \in DOMAIN s : m <= s[i]
Last(s) == s[Len(s)]

\* ------------------------------------------------------------ the state
VARIABLES
    \* EventDetector's fields
    objects,                    \* _objects: the tracks, in insertion order
    next_id,                    \* _next_id
    last_events,                \* _last_events: event type -> last accepted time (0: never)
    callbacks,                  \* _callbacks: the subscribers, "ok" or "raises"
    parked_vehicles,            \* _parked_vehicles
    stopped_vehicles,           \* _stopped_vehicles
    recent_detections,          \* _recent_detections: category -> <<[bbox, time]>>
    last_vehicle_detected,      \* _last_vehicle_detected
    last_person_detected,       \* _last_person_detected
    notification_times,         \* _notification_times
    startup_scan_done,          \* _startup_scan_done
    detection_history,          \* _detection_history: position id -> <<timestamps>>
    ptz,                        \* _ptz is not None
    camera_settle_rescan_done,  \* _camera_settle_rescan_done
    camera_move_logged,         \* _camera_move_logged
    camera_has_moved,           \* _camera_has_moved
    \* the environment
    now,                        \* the value time.time() returns
    cam,                        \* what the PTZ object answered last: "moved", "moving", "settled"
    \* observation only: no operation reads these back
    calls,                      \* how many update() calls were made
    call,                       \* the last operation with its inputs and outputs
    event_log,                  \* every event update() returned so far: [event_type, time, bbox]
    accepted_log,               \* every event _can_fire accepted so far: [event_type, time]
    credited_log,               \* every dwell/stop event fired so far: [event_type, id]
    script                      \* where the environment is in its scenario

detector == <<objects, next_id, last_events, callbacks, parked_vehicles, stopped_vehicles,
              recent_detections, last_vehicle_detected, last_person_detected,
              notification_times, startup_scan_done, detection_history, ptz,
              camera_settle_rescan_done, camera_move_logged, camera_has_moved>>
observed == <<calls, call, event_log, accepted_log, credited_log>>
vars == <<detector, now, cam, observed, script>>

GateTypes == {"person_dwelling", "vehicle_stopped", "vehicle_parked", "vehicle_left"}
Categories == {"person", "vehicle", "package"}
CamStates == {"moved", "moving", "settled"}

\* The detector as one record, threaded through the steps of a call.  The
\* fields events, fired, delivered, gate, credited and rescanned are the
\* call's outputs: events is update()'s return value, fired the events
\* handed to _fire (its log lines), delivered the callback invocations, gate the _can_fire calls made, credited the track each
\* dwell/stop event was fired for, rescanned whether the body of
\* _rescan_after_camera_settles ran.
Self ==
    [objects |-> objects, next_id |-> next_id, last_events |-> last_events,
     callbacks |-> callbacks, parked_vehicles |-> parked_vehicles,
     stopped_vehicles |-> stopped_vehicles, recent_detections |-> recent_detections,
     last_vehicle_detected |-> last_vehicle_detected,
     last_person_detected |-> last_person_detected,
     notification_times |-> notification_times,
     startup_scan_done |-> startup_scan_done,
     detection_history |-> detection_history, ptz |-> ptz,
     camera_settle_rescan_done |-> camera_settle_rescan_done,
     camera_move_logged |-> camera_move_logged,
     camera_has_moved |-> camera_has_moved,
     events |-> << >>, fired |-> << >>, delivered |-> << >>, gate |-> << >>, credited |-> << >>,
     rescanned |-> FALSE]

Store(s) ==
    /\ objects' = s.objects
    /\ next_id' = s.next_id
    /\ last_events' = s.last_events
    /\ callbacks' = s.callbacks
    /\ parked_vehicles' = s.parked_vehicles
    /\ stopped_vehicles' = s.stopped_vehicles
    /\ recent_detections' = s.recent_detections
    /\ last_vehicle_detected' = s.last_vehicle_detected
    /\ last_person_detected' = s.last_person_detected
    /\ notification_times' = s.notification_times
    /\ startup_scan_done' = s.startup_scan_done
    /\ detection_history' = s.detection_history
    /\ ptz' = s.ptz
    /\ camera_settle_rescan_done' = s.camera_settle_rescan_done
    /\ camera_move_logged' = s.camera_move_logged
    /\ camera_has_moved' = s.camera_has_moved

\* ------------------------------------------------------------ events
NoMeta == [k \in {} |-> 0]
Words(w) == SelectSeq(w, LAMBDA x : x # "")

Event(event_type, timestamp, class_name, confidence, bbox, metadata, color, description) ==
    [event_type |-> event_type, timestamp |-> timestamp, class_name |-> class_name,
     confidence |-> confidence, bbox |-> bbox, metadata |-> metadata,
     color |-> color, description |-> description]

\* _camera_recently_moved that never reports a move.
camera_never_moved(s, c) == FALSE

\* _camera_recently_moved and the PTZ object's camera_is_settled, for the
\* answer c the PTZ object gives at the moment it is asked.
camera_recently_moved(s, c) == s.ptz /\ c = "moved"
camera_is_settled(c) == c = "settled"

\* _can_fire with the cooldown test written <=.
can_fire_inclusive(s, event_type, t) ==
    LET last == s.last_events[event_type]
        pruned == SelectSeq(s.notification_times, LAMBDA x : t - x < Secs(rate_window))
        seen(ok, n) == Append(s.gate, [event_type |-> event_type, now |-> t, last |-> last,
                                       window |-> n, ok |-> ok])
    IN  IF t - last <= Secs(event_cooldown)
        THEN [ok |-> FALSE, s |-> [s EXCEPT !.gate = seen(FALSE, -1)]]
        ELSE IF Len(pruned) >= max_notifications_per_minute
        THEN [ok |-> FALSE,
              s |-> [s EXCEPT !.notification_times = pruned,
                              !.gate = seen(FALSE, Len(pruned))]]
        ELSE [ok |-> TRUE,
              s |-> [s EXCEPT !.last_events[event_type] = t,
                              !.notification_times = Append(pruned, t),
                              !.gate = seen(TRUE, Len(pruned))]]

\* _can_fire with the cap test written >.
can_fire_over_cap(s, event_type, t) ==
    LET last == s.last_events[event_type]
        pruned == SelectSeq(s.notification_times, LAMBDA x : t - x < Secs(rate_window))
        seen(ok, n) == Append(s.gate, [event_type |-> event_type, now |-> t, last |-> last,
                                       window |-> n, ok |-> ok])
    IN  IF t - last < Secs(event_cooldown)
        THEN [ok |-> FALSE, s |-> [s EXCEPT !.gate = seen(FALSE, -1)]]
        ELSE IF Len(pruned) > max_notifications_per_minute
        THEN [ok |-> FALSE,
              s |-> [s EXCEPT !.notification_times = pruned,
                              !.gate = seen(FALSE, Len(pruned))]]
        ELSE [ok |-> TRUE,
              s |-> [s EXCEPT !.last_events[event_type] = t,
                              !.notification_times = Append(pruned, t),
                              !.gate = seen(TRUE, Len(pruned))]]

\* _can_fire that records the time of a call the cap rejects as the
\* last-fired time of its type.
can_fire_records_rejects(s, event_type, t) ==
    LET last == s.last_events[event_type]
        pruned == SelectSeq(s.notification_times, LAMBDA x : t - x < Secs(rate_window))
        seen(ok, n) == Append(s.gate, [event_type |-> event_type, now |-> t, last |-> last,
                                       window |-> n, ok |-> ok])
    IN  IF t - last < Secs(event_cooldown)
        THEN [ok |-> FALSE, s |-> [s EXCEPT !.gate = seen(FALSE, -1)]]
        ELSE IF Len(pruned) >= max_notifications_per_minute
        THEN [ok |-> FALSE,
              s |-> [s EXCEPT !.last_events[event_type] = t,
                              !.notification_times = pruned,
                              !.gate = seen(FALSE, Len(pruned))]]
        ELSE [ok |-> TRUE,
              s |-> [s EXCEPT !.last_events[event_type] = t,
                              !.notification_times = Append(pruned, t),
                              !.gate = seen(TRUE, Len(pruned))]]

\* _can_fire: [ok, s].  The per-type cooldown is tested first and returns
\* before the window is touched; the window is pruned before the cap is
\* tested; only an accepting call records the time.
can_fire(s, event_type, t) ==
    LET last == s.last_events[event_type]
        pruned == SelectSeq(s.notification_times, LAMBDA x : t - x < Secs(rate_window))
        seen(ok, n) == Append(s.gate, [event_type |-> event_type, now |-> t, last |-> last,
                                       window |-> n, ok |-> ok])
    IN  IF t - last < Secs(event_cooldown)
        THEN [ok |-> FALSE, s |-> [s EXCEPT !.gate = seen(FALSE, -1)]]
        ELSE IF Len(pruned) >= max_notifications_per_minute
        THEN [ok |-> FALSE,
              s |-> [s EXCEPT !.notification_times = pruned,
                              !.gate = seen(FALSE, Len(pruned))]]
        ELSE [ok |-> TRUE,
              s |-> [s EXCEPT !.last_events[event_type] = t,
                              !.notification_times = Append(pruned, t),
                              !.gate = seen(TRUE, Len(pruned))]]

\* _fire with the try/except left out of the loop: the first callback that
\* raises ends the deliveries of the event.
RECURSIVE deliveries_until_raise(_, _)
deliveries_until_raise(cbs, event) ==
    IF cbs = << >> THEN << >>
    ELSE LET n == Len(cbs)
             before == deliveries_until_raise(SubSeq(cbs, 1, n - 1), event)
         IN  IF \E i \in 1..(n - 1) : cbs[i] = "raises" THEN before
             ELSE Append(before, [callback |-> n, raised |-> cbs[n] = "raises", event |-> event])

\* _fire: the event is logged, then every callback is called in
\* registration order; one that raises is caught and the loop goes on.
\* The caller appends to events itself.
Deliveries(cbs, event) == [i \in DOMAIN cbs |-> [callback |-> i, raised |-> cbs[i] = "raises", event |-> event]]

fire(s, event) ==
    [s EXCEPT !.fired = Append(s.fired, event),
              !.delivered = s.delivered \o Deliveries(s.callbacks, event)]

\* self._fire(event) with the events.append(event) before it left out.
fire_unreturned(s, event) == fire(s, event)

\* events.append(event); self._fire(event)
Emit(s, event) == fire([s EXCEPT !.events = Append(s.events, event)], event)

\* ------------------------------------------------------------ matching
\* _match with the comparison written >=: among the tracks with the best
\* score the one registered last wins.
match_last_best(s, det) ==
    LET cand == {i \in DOMAIN s.objects :
                    /\ s.objects[i].class_name = det.class_name
                    /\ RatGe(iou(det.bbox, s.objects[i].bbox), iou_threshold)}
        score(i) == IF det.signature # "" /\ s.objects[i].signature # ""
                       /\ det.signature = s.objects[i].signature
                    THEN RatAdd(iou(det.bbox, s.objects[i].bbox), signature_boost)
                    ELSE iou(det.bbox, s.objects[i].bbox)
    IN  IF cand = {} THEN NoMatch
        ELSE s.objects[CHOOSE i \in cand :
                          \A j \in cand : RatGt(score(i), score(j))
                                            \/ (RatGe(score(i), score(j)) /\ j <= i)].id

\* _match: the id of the best track, or NoMatch.  The tracks are visited in
\* insertion order and a later one replaces the best only on a strictly
\* higher score.
MatchScore(det, obj) ==
    LET overlap == iou(det.bbox, obj.bbox)
    IN  IF det.signature # "" /\ obj.signature # "" /\ det.signature = obj.signature
        THEN RatAdd(overlap, signature_boost)
        ELSE overlap

RECURSIVE MatchFrom(_, _, _, _, _)
MatchFrom(objs, det, i, best_score, best_id) ==
    IF i > Len(objs) THEN best_id
    ELSE LET obj == objs[i]
             score == MatchScore(det, obj)
         IN  IF obj.class_name # det.class_name
             THEN MatchFrom(objs, det, i + 1, best_score, best_id)
             ELSE IF ~RatGe(iou(det.bbox, obj.bbox), iou_threshold)
             THEN MatchFrom(objs, det, i + 1, best_score, best_id)
             ELSE IF RatGt(score, best_score)
             THEN MatchFrom(objs, det, i + 1, score, obj.id)
             ELSE MatchFrom(objs, det, i + 1, best_score, best_id)

match(s, det) == MatchFrom(s.objects, det, 1, RatZero, NoMatch)

\* _get_position_id: the grid cell itself stands for hash((cx // 40, cy // 40)).
get_position_id(bbox) ==
    <<((bbox[1] + bbox[3]) \div 2) \div grid_size, ((bbox[2] + bbox[4]) \div 2) \div grid_size>>

\* --------------------------------------------- stationary-vehicle records
\* The match test of _is_known_stationary_vehicle against one record.
StationaryMatch(det, rec) ==
    LET overlap == iou(det.bbox, rec.bbox)
        sig_match == det.signature # "" /\ rec.signature # "" /\ det.signature = rec.signature
        color_match == det.color # "" /\ rec.color # "" /\ det.color = rec.color
    IN  \/ RatGe(overlap, stationary_iou)
        \/ sig_match
        \/ (color_match /\ RatGe(overlap, stationary_color_iou))

\* The refresh _is_known_stationary_vehicle applies to the record it matched.
Refreshed(rec, det, t) ==
    [rec EXCEPT !.last_seen = t,
                !.bbox = det.bbox,
                !.signature = IF det.signature # "" /\ rec.signature = "" THEN det.signature ELSE @,
                !.color = IF det.color # "" /\ rec.color = "" THEN det.color ELSE @,
                !.description = IF det.description # << >> THEN det.description ELSE @]

FirstMatch(dict, det) ==
    IF \E i \in DOMAIN dict : StationaryMatch(det, dict[i])
    THEN CHOOSE i \in DOMAIN dict :
            /\ StationaryMatch(det, dict[i])
            /\ \A j \in 1..(i - 1) : ~StationaryMatch(det, dict[j])
    ELSE 0

\* _is_known_stationary_vehicle: [known, s].  Parked records are tried
\* first, then stopped ones; the first record that matches is refreshed.
is_known_stationary_vehicle(s, det, t) ==
    LET p == FirstMatch(s.parked_vehicles, det)
        q == FirstMatch(s.stopped_vehicles, det)
    IN  IF det.class_name \notin VehicleClasses THEN [known |-> FALSE, s |-> s]
        ELSE IF p # 0
        THEN [known |-> TRUE,
              s |-> [s EXCEPT !.parked_vehicles[p] = Refreshed(@, det, t)]]
        ELSE IF q # 0
        THEN [known |-> TRUE,
              s |-> [s EXCEPT !.stopped_vehicles[q] = Refreshed(@, det, t)]]
        ELSE [known |-> FALSE, s |-> s]

\* The record the startup scan, the re-scan and _register_stopped_vehicle
\* build from a detection.
RecordOf(pid, det, first_seen, last_seen) ==
    [pid |-> pid, bbox |-> det.bbox, first_seen |-> first_seen, last_seen |-> last_seen,
     class |-> det.class_name, signature |-> det.signature, color |-> det.color,
     description |-> det.description]

\* _register_stopped_vehicle without the test sid not in
\* self._stopped_vehicles: the record is written anew every time.
register_overwrites(s, det, t) ==
    IF det.class_name \notin VehicleClasses THEN s
    ELSE [s EXCEPT !.stopped_vehicles =
                      Put(@, RecordOf(get_position_id(det.bbox), det, t, t))]

\* _register_stopped_vehicle
register_stopped_vehicle(s, det, t) ==
    LET sid == get_position_id(det.bbox)
    IN  IF det.class_name \notin VehicleClasses THEN s
        ELSE IF ~Has(s.stopped_vehicles, sid)
        THEN [s EXCEPT !.stopped_vehicles = Append(@, RecordOf(sid, det, t, t))]
        ELSE s

\* _promote_to_parked without del self._stopped_vehicles[sid].
promote_keeps_stopped(s, sid) ==
    [s EXCEPT !.parked_vehicles =
                 Put(@, [Get(s.stopped_vehicles, sid) EXCEPT
                            !.pid = get_position_id(Get(s.stopped_vehicles, sid).bbox)])]

\* _promote_to_parked: the parked record is keyed by the cell of the stopped
\* record's current bbox, the stopped record is deleted by its own key.
promote_to_parked(s, sid) ==
    LET stopped == Get(s.stopped_vehicles, sid)
        pid == get_position_id(stopped.bbox)
    IN  [s EXCEPT !.parked_vehicles = Put(@, [stopped EXCEPT !.pid = pid]),
                  !.stopped_vehicles = Del(@, sid)]

\* ------------------------------------------------------ camera movement
Touch(dict, t) == [i \in DOMAIN dict |-> [dict[i] EXCEPT !.last_seen = t]]

\* _handle_camera_movement
handle_camera_movement(s, t) ==
    [s EXCEPT !.camera_settle_rescan_done = FALSE,
              !.camera_has_moved = TRUE,
              !.parked_vehicles = Touch(@, t),
              !.stopped_vehicles = Touch(@, t),
              !.camera_move_logged = TRUE]

\* The loop of _update_parking_system's camera-moved branch: each vehicle
\* detection with a signature refreshes the first parked record carrying it.
RECURSIVE MovedRefresh(_, _, _, _)
MovedRefresh(parked, dets, k, t) ==
    IF k > Len(dets) THEN parked
    ELSE LET det == dets[k]
             hit(i) == det.signature # "" /\ parked[i].signature = det.signature
             first == IF \E i \in DOMAIN parked : hit(i)
                      THEN CHOOSE i \in DOMAIN parked : hit(i) /\ \A j \in 1..(i - 1) : ~hit(j)
                      ELSE 0
         IN  IF det.class_name \in VehicleClasses /\ first # 0
             THEN MovedRefresh([parked EXCEPT ![first].last_seen = t, ![first].bbox = det.bbox],
                               dets, k + 1, t)
             ELSE MovedRefresh(parked, dets, k + 1, t)

\* The re-registration loop of _rescan_after_camera_settles.
RECURSIVE RegisterAll(_, _, _, _)
RegisterAll(parked, dets, k, t) ==
    IF k > Len(dets) THEN parked
    ELSE IF dets[k].class_name \in VehicleClasses
    THEN RegisterAll(Put(parked, RecordOf(get_position_id(dets[k].bbox), dets[k], t, t)),
                     dets, k + 1, t)
    ELSE RegisterAll(parked, dets, k + 1, t)

\* _rescan_after_camera_settles without its two "has the camera moved"
\* guards: it runs whenever the camera is settled.
rescan_unguarded(s, vehicle_detections, t, c) ==
    IF s.ptz /\ ~camera_is_settled(c) THEN s
    ELSE [s EXCEPT !.camera_settle_rescan_done = TRUE,
                   !.camera_move_logged = FALSE,
                   !.rescanned = TRUE,
                   !.parked_vehicles = RegisterAll(<< >>, vehicle_detections, 1, t),
                   !.stopped_vehicles = << >>]

\* _rescan_after_camera_settles without the two clear() calls.
rescan_keeps_records(s, vehicle_detections, t, c) ==
    IF ~s.camera_has_moved THEN s
    ELSE IF s.camera_settle_rescan_done THEN s
    ELSE IF s.ptz /\ ~camera_is_settled(c) THEN s
    ELSE [s EXCEPT !.camera_settle_rescan_done = TRUE,
                   !.camera_move_logged = FALSE,
                   !.rescanned = TRUE,
                   !.parked_vehicles = RegisterAll(@, vehicle_detections, 1, t)]

\* _rescan_after_camera_settles that announces the first record it clears
\* with a vehicle_left.
rescan_announces(s, vehicle_detections, t, c) ==
    IF ~s.camera_has_moved THEN s
    ELSE IF s.camera_settle_rescan_done THEN s
    ELSE IF s.ptz /\ ~camera_is_settled(c) THEN s
    ELSE [(IF s.parked_vehicles # << >>
           THEN Emit(s, Event("vehicle_left", t, s.parked_vehicles[1].class,
                              parking_event_confidence, s.parked_vehicles[1].bbox,
                              "parked_duration" :> (t - s.parked_vehicles[1].first_seen),
                              s.parked_vehicles[1].color, <<"left">>))
           ELSE s)
          EXCEPT !.camera_settle_rescan_done = TRUE,
                 !.camera_move_logged = FALSE,
                 !.rescanned = TRUE,
                 !.parked_vehicles = RegisterAll(<< >>, vehicle_detections, 1, t),
                 !.stopped_vehicles = << >>]

\* _rescan_after_camera_settles; c is the PTZ object's answer when asked.
rescan_after_camera_settles(s, vehicle_detections, t, c) ==
    IF ~s.camera_has_moved THEN s
    ELSE IF s.camera_settle_rescan_done THEN s
    ELSE IF s.ptz /\ ~camera_is_settled(c) THEN s
    ELSE [s EXCEPT !.camera_settle_rescan_done = TRUE,
                   !.camera_move_logged = FALSE,
                   !.rescanned = TRUE,
                   !.parked_vehicles = RegisterAll(<< >>, vehicle_detections, 1, t),
                   !.stopped_vehicles = << >>]

\* ------------------------------------------------ _update_parking_system
\* The startup scan's loop: a detection is registered unless its cell is
\* already a key of the parked map.
RECURSIVE StartupScan(_, _, _, _)
StartupScan(parked, dets, k, t) ==
    IF k > Len(dets) THEN parked
    ELSE LET pid == get_position_id(dets[k].bbox)
         IN  IF dets[k].class_name \in VehicleClasses /\ ~Has(parked, pid)
             THEN StartupScan(Append(parked, RecordOf(pid, dets[k], t, t)), dets, k + 1, t)
             ELSE StartupScan(parked, dets, k + 1, t)

ParkingDescription(rec, word) == Words(<<rec.color, rec.class, word>>)

\* One promotion: the stopped record moves to the parked map, then the gate
\* is asked, then the event is built and fired.
Promoted(g, stopped, t) ==
    IF g.ok
    THEN Emit(g.s, Event("vehicle_parked", t, stopped.class, parking_event_confidence,
                         stopped.bbox, "parked_duration" :> (t - stopped.first_seen),
                         stopped.color, ParkingDescription(stopped, "parked")))
    ELSE g.s

\* The promotion loop, over the snapshot list(self._stopped_vehicles.items()).
RECURSIVE PromoteLoop(_, _, _, _)
PromoteLoop(s, snapshot, k, t) ==
    IF k > Len(snapshot) THEN s
    ELSE IF t - snapshot[k].first_seen >= Secs(parking_time)
    THEN PromoteLoop(Promoted(can_fire(promote_to_parked(s, snapshot[k].pid),
                                       "vehicle_parked", t),
                              snapshot[k], t),
                     snapshot, k + 1, t)
    ELSE PromoteLoop(s, snapshot, k + 1, t)

\* The stopped-vehicle expiry loop: silent.
StoppedGone(s, t) ==
    [s EXCEPT !.stopped_vehicles =
        SelectSeq(@, LAMBDA r : ~(t - r.last_seen > Secs(stopped_gone_timeout)))]

\* One expiry of a parked record that keeps the record when the gate
\* rejects its vehicle_left, to try again in a later cycle.
LeftRetried(g, parked, t) ==
    IF g.ok
    THEN [Emit(g.s, Event("vehicle_left", t, parked.class, parking_event_confidence,
                          parked.bbox, "parked_duration" :> (t - parked.first_seen),
                          parked.color, ParkingDescription(parked, "left")))
          EXCEPT !.parked_vehicles = Del(@, parked.pid)]
    ELSE g.s

\* One expiry of a parked record: the gate is asked, the event is fired if
\* it lets it out, and the record is deleted either way.
Left(g, parked, t) ==
    [(IF g.ok
      THEN Emit(g.s, Event("vehicle_left", t, parked.class, parking_event_confidence,
                           parked.bbox, "parked_duration" :> (t - parked.first_seen),
                           parked.color, ParkingDescription(parked, "left")))
      ELSE g.s)
     EXCEPT !.parked_vehicles = Del(@, parked.pid)]

\* The parked-vehicle expiry loop, over the snapshot of the parked map.
RECURSIVE ParkedGone(_, _, _, _)
ParkedGone(s, snapshot, k, t) ==
    IF k > Len(snapshot) THEN s
    ELSE IF t - snapshot[k].last_seen > Secs(parked_gone_timeout)
    THEN ParkedGone(Left(can_fire(s, "vehicle_left", t), snapshot[k], t), snapshot, k + 1, t)
    ELSE ParkedGone(s, snapshot, k + 1, t)

\* The camera-moved branch of _update_parking_system.
CameraMoved(s, vehicle_detections, t) ==
    [s EXCEPT !.parked_vehicles = MovedRefresh(@, vehicle_detections, 1, t)]

\* The startup scan, once, startup_scan_delay after construction.
StartupScanned(s, vehicle_detections, t) ==
    IF ~s.startup_scan_done /\ t - startup_time > Secs(startup_scan_delay)
    THEN [s EXCEPT !.startup_scan_done = TRUE,
                   !.parked_vehicles = StartupScan(@, vehicle_detections, 1, t)]
    ELSE s

PromoteStopped(s, t) == PromoteLoop(s, s.stopped_vehicles, 1, t)

LeaveParked(s, t) == ParkedGone(s, s.parked_vehicles, 1, t)

\* _update_parking_system; c is the PTZ object's answer during the call.
update_parking_system(s, vehicle_detections, t, c) ==
    IF camera_recently_moved(s, c)
    THEN CameraMoved(handle_camera_movement(s, t), vehicle_detections, t)
    ELSE LeaveParked(
             StoppedGone(
                 PromoteStopped(
                     StartupScanned(rescan_after_camera_settles(s, vehicle_detections, t, c),
                                    vehicle_detections, t),
                     t),
                 t),
             t)

\* ------------------------------------------------------------ loitering
\* _update_position_history that keeps the first samples of a full history.
history_keeps_oldest(history, bbox, t) ==
    LET c == bbox_center(bbox)
        h == Append(history, <<t, c[1], c[2]>>)
    IN  IF Len(h) > position_history_max THEN SubSeq(h, 1, position_history_max) ELSE h

\* _update_position_history: the new position history of a track.
update_position_history(history, bbox, t) ==
    LET c == bbox_center(bbox)
        h == Append(history, <<t, c[1], c[2]>>)
    IN  IF Len(h) > position_history_max
        THEN SubSeq(h, Len(h) - position_history_max + 1, Len(h))
        ELSE h

\* _is_loitering that counts the dwell from the oldest kept sample, inside
\* the radius or not.
is_loitering_from_oldest(obj, t) ==
    LET history == obj.position_history
        recent_positions ==
            SelectSeq(history, LAMBDA p : t - p[1] <= Secs(loitering_time + loitering_buffer))
        xs == [i \in DOMAIN recent_positions |-> recent_positions[i][2]]
        ys == [i \in DOMAIN recent_positions |-> recent_positions[i][3]]
        x_range == SeqMax(xs) - SeqMin(xs)
        y_range == SeqMax(ys) - SeqMin(ys)
        loiter_duration == t - history[1][1]
    IN  IF Len(history) < 3 THEN [loitering |-> FALSE, duration |-> 0]
        ELSE IF Len(recent_positions) < 2 THEN [loitering |-> FALSE, duration |-> 0]
        ELSE IF x_range * x_range + y_range * y_range <= loitering_radius * loitering_radius
                /\ loiter_duration >= Secs(loitering_time)
        THEN [loitering |-> TRUE, duration |-> loiter_duration]
        ELSE [loitering |-> FALSE, duration |-> 0]

\* _is_loitering: [loitering, duration].
is_loitering(obj, t) ==
    LET history == obj.position_history
        recent_positions ==
            SelectSeq(history, LAMBDA p : t - p[1] <= Secs(loitering_time + loitering_buffer))
        xs == [i \in DOMAIN recent_positions |-> recent_positions[i][2]]
        ys == [i \in DOMAIN recent_positions |-> recent_positions[i][3]]
        x_range == SeqMax(xs) - SeqMin(xs)
        y_range == SeqMax(ys) - SeqMin(ys)
        curr == bbox_center(obj.bbox)
        near(i) == DistSq(<<history[i][2], history[i][3]>>, curr)
                      <= loitering_radius * loitering_radius
        oldest_in_area ==
            IF \E i \in DOMAIN history : near(i)
            THEN history[CHOOSE i \in DOMAIN history : near(i) /\ \A j \in 1..(i - 1) : ~near(j)][1]
            ELSE recent_positions[1][1]
        loiter_duration == t - oldest_in_area
    IN  IF Len(history) < 3 THEN [loitering |-> FALSE, duration |-> 0]
        ELSE IF Len(recent_positions) < 2 THEN [loitering |-> FALSE, duration |-> 0]
        ELSE IF x_range * x_range + y_range * y_range <= loitering_radius * loitering_radius
                /\ loiter_duration >= Secs(loitering_time)
        THEN [loitering |-> TRUE, duration |-> loiter_duration]
        ELSE [loitering |-> FALSE, duration |-> 0]

\* ------------------------------------------------------- location dedup
Category(class_name) ==
    IF class_name = "person" THEN "person"
    ELSE IF class_name \in VehicleClasses THEN "vehicle" ELSE "package"

\* _is_new_detection_location that accepts a new location without
\* recording it.
location_not_recorded(s, det, t) ==
    LET category == Category(det.class_name)
        kept == SelectSeq(s.recent_detections[category],
                          LAMBDA d : t - d.time < Secs(detection_location_cooldown))
        same == \E i \in DOMAIN kept : RatGe(iou(det.bbox, kept[i].bbox), location_iou_threshold)
    IN  [new |-> ~same, s |-> [s EXCEPT !.recent_detections[category] = kept]]

\* _is_new_detection_location: [new, s].  Old entries are dropped first; a
\* location is recorded only when the detection is accepted as new.
is_new_detection_location(s, det, t) ==
    LET category == Category(det.class_name)
        kept == SelectSeq(s.recent_detections[category],
                          LAMBDA d : t - d.time < Secs(detection_location_cooldown))
        same == \E i \in DOMAIN kept : RatGe(iou(det.bbox, kept[i].bbox), location_iou_threshold)
    IN  IF same
        THEN [new |-> FALSE, s |-> [s EXCEPT !.recent_detections[category] = kept]]
        ELSE [new |-> TRUE,
              s |-> [s EXCEPT !.recent_detections[category] =
                                  Append(kept, [bbox |-> det.bbox, time |-> t])]]

\* --------------------------------------------------------------- update
IndexOf(objs, oid) == CHOOSE i \in DOMAIN objs : objs[i].id = oid

TrackedObject(id, det, t) ==
    [id |-> id, class_name |-> det.class_name, first_seen |-> t, last_seen |-> t,
     bbox |-> det.bbox, confidence |-> det.confidence, reported |-> FALSE,
     color |-> det.color, description |-> det.description, signature |-> det.signature,
     position_history |-> << >>]

Credit(s, event_type, oid) ==
    [s EXCEPT !.credited = Append(@, [event_type |-> event_type, id |-> oid])]

\* update()'s branch for a detection matched to the track oid, step by step.
\* The detection as the rest of the branch sees it: an unclassified
\* detection takes the classification cached on the track.
CachedClassification(det0, old) ==
    IF det0.signature = "" /\ old.signature # ""
    THEN [det0 EXCEPT !.signature = old.signature, !.color = old.color,
                      !.description = old.description]
    ELSE det0

\* The track after last_seen, bbox and confidence are refreshed, a classified
\* detection's classification is cached on it, and a person's position
\* history is extended.
Seen(old, det0, t) ==
    [old EXCEPT !.last_seen = t, !.bbox = det0.bbox, !.confidence = det0.confidence,
                !.signature = IF det0.signature # "" THEN det0.signature ELSE @,
                !.color = IF det0.signature # "" THEN det0.color ELSE @,
                !.description = IF det0.signature # "" THEN det0.description ELSE @,
                !.position_history = IF old.class_name = "person"
                                     THEN update_position_history(@, det0.bbox, t) ELSE @]

\* The person_dwelling block that marks the track reported before it asks
\* the gate, as the vehicle_stopped block does.
DwellingDropped(g, obj, det, oid, t, l) ==
    IF g.ok
    THEN [s |-> Credit(Emit(g.s, Event("person_dwelling", t, "person", det.confidence,
                                       det.bbox, "dwell" :> l.duration, obj.color,
                                       IF obj.description # << >>
                                       THEN Append(obj.description, "loitering")
                                       ELSE <<"person", "loitering">>)),
                       "person_dwelling", oid),
          obj |-> [obj EXCEPT !.reported = TRUE]]
    ELSE [s |-> g.s, obj |-> [obj EXCEPT !.reported = TRUE]]

\* The person_dwelling block once loitering is found: g is _can_fire's
\* answer, l is _is_loitering's.  [s, obj]
DwellingGated(g, obj, det, oid, t, l) ==
    IF g.ok
    THEN [s |-> Credit(Emit(g.s, Event("person_dwelling", t, "person", det.confidence,
                                       det.bbox, "dwell" :> l.duration, obj.color,
                                       IF obj.description # << >>
                                       THEN Append(obj.description, "loitering")
                                       ELSE <<"person", "loitering">>)),
                       "person_dwelling", oid),
          obj |-> [obj EXCEPT !.reported = TRUE]]
    ELSE [s |-> g.s, obj |-> obj]

\* The person_dwelling block: [s, obj]
Dwelling(s, obj, det, oid, t, l) ==
    IF obj.class_name = "person" /\ ~obj.reported /\ l.loitering
    THEN DwellingGated(can_fire(s, "person_dwelling", t), obj, det, oid, t, l)
    ELSE [s |-> s, obj |-> obj]

\* The vehicle_stopped block after obj.reported is set and the stopped
\* record is registered: g is _can_fire's answer.
StoppedGated(g, obj, det, oid, t) ==
    IF g.ok
    THEN Credit(Emit(g.s, Event("vehicle_stopped", t, obj.class_name, det.confidence,
                                det.bbox, "stop_time" :> (t - obj.first_seen), obj.color,
                                obj.description)),
                "vehicle_stopped", oid)
    ELSE g.s

\* The vehicle_stopped block leaving obj.reported as it was.
NotReported(s, i, obj) == [s EXCEPT !.objects[i] = obj]

\* obj.reported = True, written to the track at index i.
Reported(s, i, obj) == [s EXCEPT !.objects[i] = [obj EXCEPT !.reported = TRUE]]

\* The vehicle_stopped block that marks the track reported only when the
\* gate lets the event out, so that a rejected event is tried again.
StoppedUnlessRejected(g, i, obj, det, oid, t) ==
    IF g.ok THEN StoppedGated([g EXCEPT !.s = Reported(g.s, i, obj)], obj, det, oid, t)
    ELSE g.s

StoppedRetried(r, i, det, oid, t) ==
    IF r.obj.class_name \in VehicleClasses /\ t - r.obj.first_seen >= Secs(vehicle_stop)
       /\ ~r.obj.reported
    THEN StoppedUnlessRejected(can_fire(register_stopped_vehicle(NotReported(r.s, i, r.obj),
                                                                 det, t),
                                        "vehicle_stopped", t),
                               i, r.obj, det, oid, t)
    ELSE [r.s EXCEPT !.objects[i] = r.obj]

\* The vehicle_stopped block; r is [s, obj] after the person_dwelling block
\* and i the index of the track.
Stopped(r, i, det, oid, t) ==
    IF r.obj.class_name \in VehicleClasses /\ t - r.obj.first_seen >= Secs(vehicle_stop)
       /\ ~r.obj.reported
    THEN StoppedGated(can_fire(register_stopped_vehicle(Reported(r.s, i, r.obj), det, t),
                               "vehicle_stopped", t),
                      r.obj, det, oid, t)
    ELSE [r.s EXCEPT !.objects[i] = r.obj]

MatchedTrack(s, det, obj, i, oid, t) ==
    Stopped(Dwelling(s, obj, det, oid, t, is_loitering(obj, t)), i, det, oid, t)

Matched(s, det0, oid, t) ==
    MatchedTrack(s, CachedClassification(det0, s.objects[IndexOf(s.objects, oid)]),
                 Seen(s.objects[IndexOf(s.objects, oid)], det0, t),
                 IndexOf(s.objects, oid), oid, t)

HistoryAt(h, pid) == IF pid \in DOMAIN h THEN h[pid] ELSE << >>
SetHistory(h, pid, times) == [p \in DOMAIN h \cup {pid} |-> IF p = pid THEN times ELSE h[p]]

\* The new-person branch without the camera test.
NewPersonWhileMoving(s, det, t, c) ==
    IF t - s.last_person_detected >= Secs(person_detected_cooldown)
    THEN Emit([s EXCEPT !.last_person_detected = t],
              Event("person_detected", t, "person", det.confidence, det.bbox, NoMeta,
                    det.color, det.description))
    ELSE s

\* The new-person branch without the time-based cooldown.
NewPersonNoCooldown(s, det, t, c) ==
    IF camera_recently_moved(s, c) \/ (s.ptz /\ ~camera_is_settled(c)) THEN s
    ELSE Emit([s EXCEPT !.last_person_detected = t],
              Event("person_detected", t, "person", det.confidence, det.bbox, NoMeta,
                    det.color, det.description))

\* update()'s branch for a new person; c is the PTZ object's answer now.
NewPerson(s, det, t, c) ==
    LET camera_moving == camera_recently_moved(s, c)
        camera_settled == IF s.ptz THEN camera_is_settled(c) ELSE TRUE
    IN  IF camera_moving \/ ~camera_settled THEN s
        ELSE IF t - s.last_person_detected >= Secs(person_detected_cooldown)
        THEN Emit([s EXCEPT !.last_person_detected = t],
                  Event("person_detected", t, "person", det.confidence, det.bbox, NoMeta,
                        det.color, det.description))
        ELSE s

\* update()'s branch for a new vehicle: the repeated-detection tracker,
\* then the time-based cooldown of vehicle_detected.
NewVehicle(s, det, t) ==
    LET pos_id == get_position_id(det.bbox)
        times == Append(SelectSeq(HistoryAt(s.detection_history, pos_id),
                                  LAMBDA x : t - x < Secs(repeated_detection_window)), t)
        s1 == [s EXCEPT !.detection_history = SetHistory(@, pos_id, times)]
        flicker == [pid |-> pos_id, bbox |-> det.bbox, first_seen |-> times[1],
                    last_seen |-> t, class |-> det.class_name, signature |-> det.signature,
                    color |-> det.color, description |-> << >>]
    IN  IF Len(times) >= repeated_detection_threshold
        THEN IF ~Has(s1.parked_vehicles, pos_id)
             THEN [s1 EXCEPT !.parked_vehicles = Append(@, flicker),
                             !.detection_history = SetHistory(@, pos_id, << >>)]
             ELSE s1
        ELSE IF t - s1.last_vehicle_detected >= Secs(vehicle_detected_cooldown)
        THEN Emit([s1 EXCEPT !.last_vehicle_detected = t],
                  Event("vehicle_detected", t, det.class_name, det.confidence, det.bbox,
                        NoMeta, det.color, det.description))
        ELSE s1

\* update()'s branch for a new package; n is _is_new_detection_location's
\* answer.
PackageAt(n, det, t) ==
    IF n.new
    THEN Emit(n.s, Event("package_detected", t, "package", det.confidence, det.bbox,
                         NoMeta, det.color, det.description))
    ELSE n.s

NewPackage(s, det, t) == PackageAt(is_new_detection_location(s, det, t), det, t)

\* A new TrackedObject under the next id.
Track(s, det, t) ==
    [s EXCEPT !.objects = Append(@, TrackedObject(s.next_id, det, t)),
              !.next_id = @ + 1]

\* update()'s branch for a detection that matched no track; k is
\* _is_known_stationary_vehicle's answer.
\* The unmatched branch without the test of _is_known_stationary_vehicle's
\* answer: a known vehicle is refreshed and tracked all the same.
UnmatchedTracked(k, s, det, t, c) ==
    IF det.class_name = "person" THEN NewPerson(Track(k.s, det, t), det, t, c)
    ELSE IF det.class_name \in VehicleClasses THEN NewVehicle(Track(k.s, det, t), det, t)
    ELSE IF det.class_name = "package" THEN NewPackage(Track(k.s, det, t), det, t)
    ELSE Track(k.s, det, t)

UnmatchedKnown(k, s, det, t, c) ==
    IF k.known THEN k.s
    ELSE IF det.class_name = "person" THEN NewPerson(Track(s, det, t), det, t, c)
    ELSE IF det.class_name \in VehicleClasses THEN NewVehicle(Track(s, det, t), det, t)
    ELSE IF det.class_name = "package" THEN NewPackage(Track(s, det, t), det, t)
    ELSE Track(s, det, t)

Unmatched(s, det, t, c) ==
    UnmatchedKnown(is_known_stationary_vehicle(s, det, t), s, det, t, c)

\* The loop body that fires the person_detected a track has not had yet
\* when the track is matched, once the camera and the cooldown allow it.
ProcessDeferred(s, det, oid, t, c) ==
    IF oid = NoMatch THEN Unmatched(s, det, t, c)
    ELSE IF det.class_name = "person"
            /\ s.objects[IndexOf(s.objects, oid)].first_seen > s.last_person_detected
    THEN NewPerson(Matched(s, det, oid, t), det, t, c)
    ELSE Matched(s, det, oid, t)

\* The body of update()'s loop over the detections: oid is _match's answer.
ProcessDetection(s, det, oid, t, c) ==
    IF oid # NoMatch THEN Matched(s, det, oid, t) ELSE Unmatched(s, det, t, c)

\* update()'s loop over the detections.
RECURSIVE ProcessDetections(_, _, _, _, _)
ProcessDetections(s, detections, k, t, c) ==
    IF k > Len(detections) THEN s
    ELSE ProcessDetections(ProcessDetection(s, detections[k], match(s, detections[k]), t, c),
                           detections, k + 1, t, c)

\* The staleness purge that ends update().
StaleTimeout(obj) ==
    IF obj.class_name \in VehicleClasses THEN vehicle_stale_timeout ELSE person_stale_timeout

\* The purge with the test written >=: a track is dropped as soon as it
\* has been unseen for exactly its timeout.
remove_stale_inclusive(s, t) ==
    [s EXCEPT !.objects = SelectSeq(@, LAMBDA obj : ~(t - obj.last_seen >= Secs(StaleTimeout(obj))))]

\* The purge followed by winding _next_id back to just above the ids left.
remove_stale_rewinds(s, t) ==
    [s EXCEPT !.objects = SelectSeq(@, LAMBDA obj : ~(t - obj.last_seen > Secs(StaleTimeout(obj)))),
              !.next_id = Len(SelectSeq(s.objects,
                              LAMBDA obj : ~(t - obj.last_seen > Secs(StaleTimeout(obj)))))]

RemoveStale(s, t) ==
    [s EXCEPT !.objects = SelectSeq(@, LAMBDA obj : ~(t - obj.last_seen > Secs(StaleTimeout(obj))))]

\* update(detections): the detector after the call, with the call's outputs.
\* c1 is the PTZ object's answer while _update_parking_system runs, c2 its
\* answer while the detections are processed.
VehicleDetections(detections) ==
    SelectSeq(detections, LAMBDA d : d.class_name \in VehicleClasses)

update(s, detections, t, c1, c2) ==
    RemoveStale(ProcessDetections(update_parking_system(s, VehicleDetections(detections), t, c1),
                                  detections, 1, t, c2),
                t)

\* update_classifications(detections)
RECURSIVE update_classifications(_, _, _)
update_classifications(s, detections, k) ==
    IF k > Len(detections) THEN s
    ELSE LET det == detections[k]
             oid == match(s, det)
             i == IndexOf(s.objects, oid)
         IN  IF det.signature # "" /\ oid # NoMatch /\ s.objects[i].signature = ""
             THEN update_classifications(
                      [s EXCEPT !.objects[i].signature = det.signature,
                                !.objects[i].color = det.color,
                                !.objects[i].description = det.description],
                      detections, k + 1)
             ELSE update_classifications(s, detections, k + 1)

\* ----------------------------------------------------------- operations
NoCall ==
    [op |-> "none", detections |-> << >>, c1 |-> "settled", c2 |-> "settled",
     events |-> << >>, fired |-> << >>, delivered |-> << >>, gate |-> << >>, credited |-> << >>,
     rescanned |-> FALSE, oid |-> NoMatch, ratio |-> RatZero,
     before |-> [objects |-> << >>, parked_vehicles |-> << >>, stopped_vehicles |-> << >>]]

NoScript == [phase |-> "free", start |-> 0, n |-> 0, det |-> << >>]

\* EventDetector.__init__
Init ==
    /\ objects = << >>
    /\ next_id = 0
    /\ last_events = [e \in GateTypes |-> 0]
    /\ callbacks = << >>
    /\ parked_vehicles = << >>
    /\ stopped_vehicles = << >>
    /\ recent_detections = [c \in Categories |-> << >>]
    /\ last_vehicle_detected = 0
    /\ last_person_detected = 0
    /\ notification_times = << >>
    /\ startup_scan_done = FALSE
    /\ detection_history = << >>
    /\ ptz = FALSE
    /\ camera_settle_rescan_done = TRUE
    /\ camera_move_logged = FALSE
    /\ camera_has_moved = FALSE
    /\ now = startup_time
    /\ cam = "settled"
    /\ calls = 0
    /\ call = NoCall
    /\ event_log = << >>
    /\ accepted_log = << >>
    /\ credited_log = << >>
    /\ script = NoScript

Accepted(gate) ==
    LET ok == SelectSeq(gate, LAMBDA g : g.ok)
    IN  [i \in DOMAIN ok |-> [event_type |-> ok[i].event_type, time |-> ok[i].now]]

Logged(events) ==
    [i \in DOMAIN events |-> [event_type |-> events[i].event_type, time |-> events[i].timestamp,
                               bbox |-> events[i].bbox]]

\* One update() call, dt ticks after the previous operation.  The PTZ
\* object answers c1 while the parking system runs and c2 afterwards.
Returned(s, detections, c1, c2) ==
    /\ Store(s)
    /\ call' = [op |-> "update", detections |-> detections, c1 |-> c1, c2 |-> c2,
                events |-> s.events, fired |-> s.fired, delivered |-> s.delivered, gate |-> s.gate,
                credited |-> s.credited, rescanned |-> s.rescanned, oid |-> NoMatch, ratio |-> RatZero,
                before |-> [objects |-> objects, parked_vehicles |-> parked_vehicles,
                            stopped_vehicles |-> stopped_vehicles]]
    /\ event_log' = event_log \o Logged(s.events)
    /\ accepted_log' = accepted_log \o Accepted(s.gate)
    /\ credited_log' = credited_log \o s.credited

UpdateCall(detections, dt, c1, c2) ==
    /\ now' = now + dt
    /\ cam' = c2
    /\ calls' = calls + 1
    /\ Returned(update(Self, detections, now + dt, c1, c2), detections, c1, c2)

\* update_classifications(detections), called by the main loop right after
\* update() with the detections it has just classified.
UpdateClassificationsCall(detections) ==
    /\ Store(update_classifications(Self, detections, 1))
    /\ call' = [NoCall EXCEPT !.op = "update_classifications", !.detections = detections]
    /\ UNCHANGED <<now, cam, calls, event_log, accepted_log, credited_log>>

\* set_ptz(ptz_controller)
SetPtzCall ==
    /\ ptz' = TRUE
    /\ call' = [NoCall EXCEPT !.op = "set_ptz"]
    /\ UNCHANGED <<objects, next_id, last_events, callbacks, parked_vehicles,
                   stopped_vehicles, recent_detections, last_vehicle_detected,
                   last_person_detected, notification_times, startup_scan_done,
                   detection_history, camera_settle_rescan_done, camera_move_logged,
                   camera_has_moved, now, cam, calls, event_log, accepted_log, credited_log>>

\* on_event(callback)
OnEventCall(kind) ==
    /\ callbacks' = Append(callbacks, kind)
    /\ call' = [NoCall EXCEPT !.op = "on_event"]
    /\ UNCHANGED <<objects, next_id, last_events, parked_vehicles,
                   stopped_vehicles, recent_detections, last_vehicle_detected,
                   last_person_detected, notification_times, startup_scan_done,
                   detection_history, ptz, camera_settle_rescan_done, camera_move_logged,
                   camera_has_moved, now, cam, calls, event_log, accepted_log, credited_log>>

\* One _can_fire(event_type) call on its own, dt ticks after the previous
\* operation.
Answered(g) ==
    /\ Store(g.s)
    /\ call' = [NoCall EXCEPT !.op = "can_fire", !.gate = g.s.gate]
    /\ accepted_log' = accepted_log \o Accepted(g.s.gate)

CanFireCall(event_type, dt) ==
    /\ now' = now + dt
    /\ Answered(can_fire(Self, event_type, now + dt))
    /\ UNCHANGED <<cam, calls, event_log, credited_log>>

\* get_current_detections: the tracks, then the parked, then the stopped
\* vehicles; of each entry the id, class, colour and status.
get_current_detections(s) ==
    [i \in DOMAIN s.objects |->
        [id |-> s.objects[i].id, class |-> s.objects[i].class_name,
         color |-> s.objects[i].color, status |-> "active"]]
    \o [i \in DOMAIN s.parked_vehicles |->
        [id |-> s.parked_vehicles[i].pid, class |-> s.parked_vehicles[i].class,
         color |-> s.parked_vehicles[i].color, status |-> "parked"]]
    \o [i \in DOMAIN s.stopped_vehicles |->
        [id |-> s.stopped_vehicles[i].pid, class |-> s.stopped_vehicles[i].class,
         color |-> s.stopped_vehicles[i].color, status |-> "stopped"]]

\* GET /detections, served by the API thread; detections is the answer.
GetCurrentDetectionsCall ==
    /\ call' = [NoCall EXCEPT !.op = "get_current_detections",
                              !.detections = get_current_detections(Self)]
    /\ UNCHANGED <<detector, now, cam, calls, event_log, accepted_log, credited_log>>

\* The stopped vehicles the promotion loop promotes at time t.
DuePromotions(s, t) ==
    SelectSeq(s.stopped_vehicles, LAMBDA r : t - r.first_seen >= Secs(parking_time))

\* _promote_to_parked of the first vehicle due, after
\* self._parked_vehicles[pid] = parked and before del self._stopped_vehicles[sid].
HalfPromoted(s, t) ==
    [s EXCEPT !.parked_vehicles =
                 Put(@, [DuePromotions(s, t)[1] EXCEPT
                            !.pid = get_position_id(DuePromotions(s, t)[1].bbox)])]

\* An update() call that promotes a vehicle, up to the point between the
\* two writes of _promote_to_parked; s is the detector as the promotion
\* loop finds it.
PromotionBegun(s, t) ==
    /\ DuePromotions(s, t) # << >>
    /\ now' = t
    /\ Store(HalfPromoted(s, t))
    /\ UNCHANGED <<cam, calls, call, event_log, accepted_log, credited_log>>

\* One iou(bbox_a, bbox_b) call on its own; detections holds the two
\* boxes and ratio is the answer.
IouCall(bbox_a, bbox_b) ==
    /\ call' = [NoCall EXCEPT !.op = "iou", !.detections = <<bbox_a, bbox_b>>,
                              !.ratio = iou(bbox_a, bbox_b)]
    /\ UNCHANGED <<detector, now, cam, calls, event_log, accepted_log, credited_log>>

\* One _register_stopped_vehicle(det) call on its own, dt ticks after the
\* previous operation.
RegisterStoppedVehicleCall(det, dt) ==
    /\ now' = now + dt
    /\ Store(register_stopped_vehicle(Self, det, now + dt))
    /\ call' = [NoCall EXCEPT !.op = "register_stopped_vehicle", !.detections = <<det>>,
                              !.before = [objects |-> objects,
                                          parked_vehicles |-> parked_vehicles,
                                          stopped_vehicles |-> stopped_vehicles]]
    /\ UNCHANGED <<cam, calls, event_log, accepted_log, credited_log>>

\* One _match(det) call on its own; oid is its answer.
MatchCall(det) ==
    /\ call' = [NoCall EXCEPT !.op = "match", !.detections = <<det>>, !.oid = match(Self, det)]
    /\ UNCHANGED <<detector, now, cam, calls, event_log, accepted_log, credited_log>>

\* -------------------------------------------------------------- inputs
Det(class_name, bbox) ==
    [class_name |-> class_name, confidence |-> 90, bbox |-> bbox,
     signature |-> "", color |-> "", description |-> << >>]

Classified(det, color) ==
    [det EXCEPT !.signature = IF color # "" THEN color \o "_" \o det.class_name
                              ELSE det.class_name,
                !.color = color, !.description = <<color, det.class_name>>]

CarA == Det("car", <<100, 100, 200, 200>>)
CarB == Det("car", <<400, 100, 500, 200>>)
PersonA == Det("person", <<100, 100, 150, 250>>)
PackageA == Det("package", <<300, 300, 340, 340>>)
PersonB == Det("person", <<400, 100, 450, 250>>)
\* A small car in the middle of CarA's place: the same grid cell, IoU 9/100.
CarSmall == Det("car", <<135, 135, 165, 165>>)
\* A truck parked behind CarA: its centre is in the same grid cell.
TruckBehind == Det("truck", <<90, 80, 210, 200>>)
\* A car 30 px to the right of CarA's place: another grid cell, IoU 7/13.
CarNear == Det("car", <<130, 100, 230, 200>>)

\* All the frames made of the detections of scene, in scene order.
RECURSIVE Frames(_)
Frames(scene) ==
    IF scene = << >> THEN {<< >>}
    ELSE LET rest == Frames(Tail(scene))
         IN  rest \cup {<<Head(scene)>> \o f : f \in rest}

\* What the PTZ object may answer next after answering c: a settled camera
\* answers "moved" once it is moved; a camera that moved keeps moving, is
\* moved again or settles.
CamNext(c) == IF c = "settled" THEN {"settled", "moved"} ELSE CamStates

\* ------------------------------------------------------- specifications
\* Spec: update() is called with any frame of Scene, a short or a long
\* time after the previous call; no PTZ object is attached.
MaxCalls == 5
Scene == <<CarA, PersonA>>
Steps == {Secs(vehicle_stop), Secs(event_cooldown)}

Update ==
    /\ calls < MaxCalls
    /\ \E detections \in Frames(Scene), dt \in Steps : UpdateCall(detections, dt, cam, cam)
    /\ UNCHANGED script

Next == Update

Spec == Init /\ [][Next]_vars

\* SpecCamera: a PTZ object may be attached before the first frame, and an
\* attached camera moves and settles between the update() calls.  The
\* environment keeps where the camera is in its movement: "free" until the
\* first cycle in which it answers recently-moved, "moved" from such a cycle
\* until it answers settled, "settling" in the first settled cycle after a
\* movement, "settled" after that.
MaxCameraCalls == 5
MaxCameraChanges == 4
CameraScene == <<CarA, PersonA>>
CameraSteps == {Secs(event_cooldown)}

SetPtz ==
    /\ calls = 0
    /\ ~ptz
    /\ SetPtzCall
    /\ UNCHANGED script

CameraPhase(phase, c) ==
    IF c = "moved" THEN "moved"
    ELSE IF phase = "moved" /\ c = "settled" THEN "settling"
    ELSE IF phase = "settling" THEN "settled"
    ELSE phase

CameraUpdate ==
    /\ calls < MaxCameraCalls
    /\ \E detections \in Frames(CameraScene), dt \in CameraSteps, c \in CamNext(cam) :
          /\ c # cam => ptz /\ script.n < MaxCameraChanges
          /\ UpdateCall(detections, dt, c, c)
          /\ script' = [script EXCEPT !.n = IF c # cam THEN @ + 1 ELSE @,
                                      !.phase = CameraPhase(@, c)]

NextCamera == SetPtz \/ CameraUpdate

SpecCamera == Init /\ [][NextCamera]_vars

\* SpecGate: _can_fire on its own, called with any gated event type half a
\* cooldown or a whole cooldown after the previous call.
MaxGateCalls == 5
GateSteps == {Secs(event_cooldown) \div 2, Secs(event_cooldown)}

CanFire ==
    /\ script.n < MaxGateCalls
    /\ \E event_type \in GateTypes, dt \in GateSteps : CanFireCall(event_type, dt)
    /\ script' = [script EXCEPT !.n = @ + 1]

NextGate == CanFire

SpecGate == Init /\ [][NextGate]_vars

\* SpecLifecycle: the vehicle lifecycle scenario.  After a lead-in of empty
\* frames (none, or long enough for the startup scan to pass) a car arrives
\* and is detected at a fixed position in every frame, one frame a second,
\* for FeedTime seconds; then the frames are empty for SilenceTime seconds.
\* The camera never moves.
MaxLeadIn == 12
FeedTime == parking_time
SilenceTime == parked_gone_timeout + 5
Cadence == Secs(1)
LifecycleCars == {CarA, CarB}

LeadIn ==
    /\ script.phase = "free"
    /\ now + Cadence <= startup_time + Secs(MaxLeadIn)
    /\ UpdateCall(<< >>, Cadence, cam, cam)
    /\ UNCHANGED script

Arrive ==
    /\ script.phase = "free"
    /\ \E car \in LifecycleCars :
          /\ UpdateCall(<<car>>, Cadence, cam, cam)
          /\ script' = [phase |-> "feed", start |-> now', n |-> 0, det |-> <<car>>]

Feed ==
    /\ script.phase = "feed"
    /\ now - script.start < Secs(FeedTime)
    /\ UpdateCall(script.det, Cadence, cam, cam)
    /\ UNCHANGED script

Silence ==
    /\ \/ script.phase = "feed" /\ now - script.start >= Secs(FeedTime)
       \/ script.phase = "silent"
    /\ UpdateCall(<< >>, Cadence, cam, cam)
    /\ script' = [script EXCEPT !.phase = IF now' - script.start >= Secs(FeedTime + SilenceTime)
                                          THEN "done" ELSE "silent"]

NextLifecycle == LeadIn \/ Arrive \/ Feed \/ Silence

SpecLifecycle == Init /\ [][NextLifecycle]_vars

\* SpecLoiter: the loitering scenario.  A person stands at PersonA's place
\* and is detected in every frame, one frame every 100 ms, for LoiterFeed
\* seconds; in up to MaxJitter of the frames the box is JitterPx off.
MaxJitter == 1
JitterPx == 3
LoiterFeed == loitering_time + 1
FrameTime == TicksPerSec \div 10

Shifted(det, dx) ==
    [det EXCEPT !.bbox = <<det.bbox[1] + dx, det.bbox[2], det.bbox[3] + dx, det.bbox[4]>>]

PersonArrives ==
    /\ script.phase = "free"
    /\ UpdateCall(<<PersonA>>, FrameTime, cam, cam)
    /\ script' = [phase |-> "feed", start |-> now', n |-> 0, det |-> <<PersonA>>]

PersonStays ==
    /\ script.phase = "feed"
    /\ \E dx \in {0, JitterPx} :
          /\ dx # 0 => script.n < MaxJitter
          /\ UpdateCall(<<Shifted(PersonA, dx)>>, FrameTime, cam, cam)
          /\ script' = [script EXCEPT !.n = IF dx # 0 THEN @ + 1 ELSE @,
                                      !.phase = IF now' - script.start >= Secs(LoiterFeed)
                                                THEN "done" ELSE "feed"]

NextLoiter == PersonArrives \/ PersonStays

SpecLoiter == Init /\ [][NextLoiter]_vars

\* SpecPackage: a package lies at one spot; each update() call sees it or
\* misses it, a short time, longer than the stale timeout, or a whole
\* location cooldown after the previous call.
MaxPackageCalls == 5
PackageScene == <<PackageA>>
PackageSteps == {Secs(2), Secs(person_stale_timeout + 1), Secs(detection_location_cooldown)}

PackageUpdate ==
    /\ calls < MaxPackageCalls
    /\ \E detections \in Frames(PackageScene), dt \in PackageSteps :
          UpdateCall(detections, dt, cam, cam)
    /\ UNCHANGED script

NextPackage == PackageUpdate

SpecPackage == Init /\ [][NextPackage]_vars

\* SpecLocation: a car is seen at CarA's place or 30 px beside it; the
\* calls are a short time or longer than the vehicle stale timeout apart.
MaxLocationCalls == 4
LocationScene == <<CarA, CarNear>>
LocationSteps == {Secs(vehicle_stop), Secs(vehicle_stale_timeout + 5)}

LocationUpdate ==
    /\ calls < MaxLocationCalls
    /\ \E detections \in Frames(LocationScene), dt \in LocationSteps :
          UpdateCall(detections, dt, cam, cam)
    /\ UNCHANGED script

NextLocation == LocationUpdate

SpecLocation == Init /\ [][NextLocation]_vars

\* SpecMatch: _match on its own.  The registry holds up to MaxTracks tracks
\* with ids in registration order, each of a class, a place and a
\* classification out of a small menu; _match is called once with a
\* detection out of the same menu.
MaxTracks == 2
MatchBoxes == {<<100, 100, 200, 200>>, <<130, 100, 230, 200>>, <<160, 100, 260, 200>>}
MatchDets ==
    {IF c = "" THEN Det(k, b) ELSE Classified(Det(k, b), c) :
        k \in {"car", "person"}, b \in MatchBoxes, c \in {"", "red"}}
Registry(dets) == [i \in DOMAIN dets |-> TrackedObject(i - 1, dets[i], startup_time)]

InitMatch ==
    /\ \E n \in 0..MaxTracks : \E dets \in [1..n -> MatchDets] : objects = Registry(dets)
    /\ next_id = Len(objects)
    /\ last_events = [e \in GateTypes |-> 0]
    /\ callbacks = << >>
    /\ parked_vehicles = << >>
    /\ stopped_vehicles = << >>
    /\ recent_detections = [c \in Categories |-> << >>]
    /\ last_vehicle_detected = 0
    /\ last_person_detected = 0
    /\ notification_times = << >>
    /\ startup_scan_done = FALSE
    /\ detection_history = << >>
    /\ ptz = FALSE
    /\ camera_settle_rescan_done = TRUE
    /\ camera_move_logged = FALSE
    /\ camera_has_moved = FALSE
    /\ now = startup_time
    /\ cam = "settled"
    /\ calls = 0
    /\ call = NoCall
    /\ event_log = << >>
    /\ accepted_log = << >>
    /\ credited_log = << >>
    /\ script = NoScript

Match ==
    /\ call.op = "none"
    /\ \E det \in MatchDets : MatchCall(det)
    /\ UNCHANGED script

SpecMatch == InitMatch /\ [][Match]_vars

\* SpecNotify: subscribers, some of which raise on every event, register
\* at any time between the update() calls of Spec.
MaxNotifyCalls == 3
MaxSubscribers == 2

Subscribe ==
    /\ Len(callbacks) < MaxSubscribers
    /\ \E kind \in {"ok", "raises"} : OnEventCall(kind)
    /\ UNCHANGED script

NotifyUpdate ==
    /\ calls < MaxNotifyCalls
    /\ \E detections \in Frames(Scene), dt \in Steps : UpdateCall(detections, dt, cam, cam)
    /\ UNCHANGED script

NextNotify == Subscribe \/ NotifyUpdate

SpecNotify == Init /\ [][NextNotify]_vars

\* SpecThreads: a car that the detector loses now and then, with the API
\* thread of run.py serving GET /detections at any moment.  After a lead-in
\* the car arrives and is seen once a second for WatchTime seconds; from
\* then on it is missed for MissTime seconds (its track goes stale) and
\* seen again a second later, over and over, until FlickerTime seconds
\* after its arrival.  update() runs on the main thread; a call on an empty
\* frame that promotes the car is taken in two steps, up to the first
\* write of _promote_to_parked and from there on, and no lock keeps the
\* API thread from running in between.
WatchTime == vehicle_stop + 1
MissTime == vehicle_stale_timeout + 1
FlickerTime == parking_time + 2 * MissTime

Watch ==
    /\ script.phase = "feed"
    /\ now - script.start < Secs(WatchTime)
    /\ UpdateCall(script.det, Cadence, cam, cam)
    /\ UNCHANGED script

Missing ==
    /\ \/ script.phase = "feed" /\ now - script.start >= Secs(WatchTime)
       \/ script.phase = "glimpsed"
    /\ now - script.start < Secs(FlickerTime)

Miss ==
    /\ Missing
    /\ UpdateCall(<< >>, Secs(MissTime), cam, cam)
    /\ script' = [script EXCEPT !.phase = "missed"]

Glimpse ==
    /\ script.phase = "missed"
    /\ UpdateCall(script.det, Cadence, cam, cam)
    /\ script' = [script EXCEPT !.phase = "glimpsed"]

BeginPromotion ==
    /\ Missing
    /\ ~camera_recently_moved(Self, cam)
    /\ PromotionBegun(StartupScanned(rescan_after_camera_settles(
                                         Self, << >>, now + Secs(MissTime), cam),
                                     << >>, now + Secs(MissTime)),
                      now + Secs(MissTime))
    /\ script' = [script EXCEPT !.phase = "promoting"]

FinishPromotion ==
    /\ script.phase = "promoting"
    /\ UpdateCall(<< >>, 0, cam, cam)
    /\ script' = [script EXCEPT !.phase = "missed"]

ApiRead ==
    /\ GetCurrentDetectionsCall
    /\ UNCHANGED script

NextThreads ==
    LeadIn \/ Arrive \/ Watch \/ Miss \/ Glimpse \/ BeginPromotion \/ FinishPromotion \/ ApiRead

SpecThreads == Init /\ [][NextThreads]_vars

\* SpecIou: iou on its own, on any two boxes with integer corners in
\* 0..MaxCoord, well-formed or not.
MaxCoord == 3
Boxes == {<<x1, y1, x2, y2>> : x1 \in 0..MaxCoord, y1 \in 0..MaxCoord,
                               x2 \in 0..MaxCoord, y2 \in 0..MaxCoord}

Iou ==
    /\ call.op = "none"
    /\ \E a \in Boxes, b \in Boxes : IouCall(a, b)
    /\ UNCHANGED script

SpecIou == Init /\ [][Iou]_vars

\* SpecPromotion: the flickering scenario of SpecThreads with one car or
\* two cars side by side, and a PTZ object that may be attached before the
\* first frame; an attached camera changes what it answers at most
\* MaxMoves times, between update() calls.
MaxMoves == 2
PromotionScenes == {<<CarA>>, <<CarA, CarB>>}

ArriveTogether ==
    /\ script.phase = "free"
    /\ \E cars \in PromotionScenes :
          /\ UpdateCall(cars, Cadence, cam, cam)
          /\ script' = [phase |-> "feed", start |-> now', n |-> 0, det |-> cars]

\* The next frame shows the cars.
Showing ==
    \/ script.phase = "missed"
    \/ script.phase = "feed" /\ now - script.start < Secs(WatchTime)

Flicker ==
    /\ script.phase \in {"feed", "missed", "glimpsed"}
    /\ now - script.start < Secs(FlickerTime)
    /\ \E c \in CamNext(cam) :
          /\ c # cam => ptz /\ script.n < MaxMoves
          /\ UpdateCall(IF Showing THEN script.det ELSE << >>,
                        IF Showing THEN Cadence ELSE Secs(MissTime), c, c)
          /\ script' = [script EXCEPT
                           !.phase = IF ~Showing THEN "missed"
                                     ELSE IF @ = "feed" THEN "feed" ELSE "glimpsed",
                           !.n = IF c # cam THEN @ + 1 ELSE @]

NextPromotion == SetPtz \/ LeadIn \/ ArriveTogether \/ Flicker

SpecPromotion == Init /\ [][NextPromotion]_vars

\* SpecRegister: _register_stopped_vehicle on its own, in the states the
\* update() calls of Spec lead to, with a detection that is or is not in
\* the cell of a stopped record.
MaxRegisterCalls == 3
RegisterDets == {CarA, CarNear, Det("truck", CarA.bbox), PersonA}

RegisterUpdate ==
    /\ calls < MaxRegisterCalls
    /\ call.op # "register_stopped_vehicle"
    /\ \E detections \in Frames(Scene), dt \in Steps : UpdateCall(detections, dt, cam, cam)
    /\ UNCHANGED script

Register ==
    /\ call.op # "register_stopped_vehicle"
    /\ \E det \in RegisterDets, dt \in {0, Secs(vehicle_stop)} :
          RegisterStoppedVehicleCall(det, dt)
    /\ UNCHANGED script

NextRegister == RegisterUpdate \/ Register

SpecRegister == Init /\ [][NextRegister]_vars

\* SpecRepeat: a large and a small car show up in the same grid cell, in
\* frames that are longer apart than the vehicle stale timeout, or a whole
\* repeated-detection window.
MaxRepeatCalls == 5
RepeatScene == <<CarA, CarSmall>>
RepeatSteps == {Secs(MissTime), Secs(repeated_detection_window)}

RepeatUpdate ==
    /\ calls < MaxRepeatCalls
    /\ \E detections \in Frames(RepeatScene), dt \in RepeatSteps :
          UpdateCall(detections, dt, cam, cam)
    /\ UNCHANGED script

SpecRepeat == Init /\ [][RepeatUpdate]_vars

\* SpecCooldown: cars and persons show up at two places of the frame, the
\* calls being half a vehicle_detected cooldown or a whole one apart.
MaxCooldownCalls == 4
CooldownFrames == Frames(<<CarA, PersonA>>) \cup Frames(<<CarB, PersonB>>)
CooldownSteps == {Secs(vehicle_stop), Secs(vehicle_detected_cooldown)}

CooldownUpdate ==
    /\ calls < MaxCooldownCalls
    /\ \E detections \in CooldownFrames, dt \in CooldownSteps :
          UpdateCall(detections, dt, cam, cam)
    /\ UNCHANGED script

SpecCooldown == Init /\ [][CooldownUpdate]_vars

\* SpecMidCall: as SpecCamera, but the PTZ object, which the API thread
\* moves and stops and whose answers depend on the clock, may answer one
\* thing while the parking system of a call runs and another while the
\* call processes the detections.
MaxMidCalls == 3

MidCallUpdate ==
    /\ calls < MaxMidCalls
    /\ \E detections \in Frames(CameraScene), dt \in CameraSteps :
          \E c1 \in CamNext(cam) : \E c2 \in CamNext(c1) :
              /\ (c1 # cam \/ c2 # c1) => ptz
              /\ UpdateCall(detections, dt, c1, c2)
    /\ UNCHANGED script

NextMidCall == SetPtz \/ MidCallUpdate

SpecMidCall == Init /\ [][NextMidCall]_vars

\* SpecDwell: a person walks slowly through the frame.  The frames are two
\* or four seconds apart and in each the person has either stayed or moved
\* DriftPx to the right, which still overlaps the track enough to match.
MaxDwellCalls == 8
DriftPx == 25
DwellSteps == {Secs(2), Secs(4)}

DwellUpdate ==
    /\ calls < MaxDwellCalls
    /\ \E dx \in {0, DriftPx}, dt \in DwellSteps :
          /\ UpdateCall(<<Shifted(PersonA, script.n + dx)>>, dt, cam, cam)
          /\ script' = [script EXCEPT !.n = @ + dx]

SpecDwell == Init /\ [][DwellUpdate]_vars

\* SpecHistory: a person and a car in front of the camera, one frame every
\* 100 ms, for a few frames more than a position history holds; the person
\* is missing from up to MaxSkips of the frames.
HistorySpare == 4
MaxHistoryCalls == position_history_max + HistorySpare
MaxSkips == 2

HistoryFrame ==
    /\ calls < MaxHistoryCalls
    /\ \E skip \in BOOLEAN :
          /\ skip => script.n < MaxSkips
          /\ UpdateCall(IF skip THEN <<CarA>> ELSE <<PersonA, CarA>>, FrameTime, cam, cam)
          /\ script' = [script EXCEPT !.n = IF skip THEN @ + 1 ELSE @]

SpecHistory == Init /\ [][HistoryFrame]_vars

\* SpecStop: two cars side by side, in frames half a vehicle_detected
\* cooldown or a whole one apart, each frame showing any of the two.
MaxStopCalls == 5
StopFrames == Frames(<<CarA, CarB>>)
StopSteps == {Secs(vehicle_stop), Secs(vehicle_detected_cooldown)}

StopUpdate ==
    /\ calls < MaxStopCalls
    /\ \E detections \in StopFrames, dt \in StopSteps :
          UpdateCall(detections, dt, cam, cam)
    /\ UNCHANGED script

SpecStop == Init /\ [][StopUpdate]_vars

\* SpecRetry: two persons stand in front of the camera and are both
\* detected in every frame, for RetryTime seconds.  The frames are four
\* seconds apart, up to MaxShort of them two seconds.  The main loop calls
\* update() for every frame it grabs, for as long as the program runs.
MaxShort == 2
RetryTime == loitering_time + 2 * event_cooldown
RetryScene == <<PersonA, PersonB>>
RetrySteps == {Secs(2), Secs(4)}

RetryUpdate ==
    /\ script.phase \in {"free", "feed"}
    /\ \E dt \in RetrySteps :
          /\ dt # Secs(4) => script.n < MaxShort
          /\ UpdateCall(RetryScene, dt, cam, cam)
          /\ script' = [script EXCEPT
                           !.n = IF dt # Secs(4) THEN @ + 1 ELSE @,
                           !.start = IF script.phase = "free" THEN now' ELSE @,
                           !.phase = IF script.phase = "feed"
                                        /\ now' - script.start >= Secs(RetryTime)
                                     THEN "done" ELSE "feed"]

\* The clock's part of RetryUpdate: the steps of SpecRetry that move the
\* clock are the RetryUpdate steps, and RetryUpdate is enabled exactly while
\* the scenario runs.
RetryClock ==
    /\ script.phase \in {"free", "feed"}
    /\ now' \in {now + dt : dt \in RetrySteps}

SpecRetry == Init /\ [][RetryUpdate]_vars /\ WF_now(RetryClock)

\* SpecLeave: two cars side by side, each frame showing any of the two; the
\* frames are a little more than the startup scan's delay or a little more
\* than the parked-gone timeout apart.
MaxLeaveCalls == 4
LeaveFrames == Frames(<<CarA, CarB>>)
LeaveSteps == {Secs(startup_scan_delay + 1), Secs(parked_gone_timeout + 1)}

LeaveUpdate ==
    /\ calls < MaxLeaveCalls
    /\ \E detections \in LeaveFrames, dt \in LeaveSteps :
          UpdateCall(detections, dt, cam, cam)
    /\ UNCHANGED script

SpecLeave == Init /\ [][LeaveUpdate]_vars

\* SpecShared: a car and a truck behind it, their centres in one grid
\* cell, with a PTZ object that may be attached before the first frame.
\* The frames are vehicle_stop apart, each showing any of the two, and the
\* camera may change what it answers between them.
MaxSharedCalls == 4
SharedFrames == Frames(<<CarA, TruckBehind>>)

SharedUpdate ==
    /\ calls < MaxSharedCalls
    /\ \E detections \in SharedFrames, c \in CamNext(cam) :
          /\ c # cam => ptz
          /\ UpdateCall(detections, Secs(vehicle_stop), c, c)
    /\ UNCHANGED script

NextShared == SetPtz \/ SharedUpdate

SpecShared == Init /\ [][NextShared]_vars

\* SpecFollow: a person in front of a PTZ camera that may be attached
\* before the first frame.  The frames are less than the person stale
\* timeout or a whole person_detected cooldown apart, the person is in the
\* frame or not, and the camera may change what it answers between them.
MaxFollowCalls == 5
FollowFrames == Frames(<<PersonA>>)
FollowSteps == {Secs(person_stale_timeout) - 1, Secs(person_detected_cooldown)}

FollowUpdate ==
    /\ calls < MaxFollowCalls
    /\ \E detections \in FollowFrames, dt \in FollowSteps, c \in CamNext(cam) :
          /\ c # cam => ptz
          /\ UpdateCall(detections, dt, c, c)
    /\ UNCHANGED script

NextFollow == SetPtz \/ FollowUpdate

SpecFollow == Init /\ [][NextFollow]_vars

\* --------------------------------------------------------------- claims
Count(log, event_type) == Cardinality({i \in DOMAIN log : log[i].event_type = event_type})

LastGate == call.gate[Len(call.gate)]

\* C1: at the end of an update() call no position id is a key of both the
\* stopped-vehicle map and the parked-vehicle map.
C1_Disjoint ==
    call.op = "update" => Keys(parked_vehicles) \cap Keys(stopped_vehicles) = {}

\* C2: every event update() returns, and every event delivered to a
\* subscriber, has an accepting _can_fire call for its type in the same cycle.
C2_AllGated ==
    call.op = "update" =>
        /\ \A i \in DOMAIN call.events :
              \E j \in DOMAIN call.gate :
                  call.gate[j].ok /\ call.gate[j].event_type = call.events[i].event_type
        /\ \A i \in DOMAIN call.delivered :
              \E j \in DOMAIN call.gate :
                  call.gate[j].ok /\ call.gate[j].event_type = call.delivered[i].event.event_type

\* C3: when the lifecycle scenario is over (a car fed every cycle for the
\* parking time, then silence for 65 s) exactly one vehicle_stopped, exactly
\* one vehicle_parked and exactly one vehicle_left have been fired.
C3_Lifecycle ==
    script.phase = "done" =>
        /\ Count(event_log, "vehicle_stopped") = 1
        /\ Count(event_log, "vehicle_parked") = 1
        /\ Count(event_log, "vehicle_left") = 1

\* C4: while the car is detected at its position in every cycle, no parked
\* record is removed and no vehicle_left is fired.
C4_FedNeverLeaves ==
    (script.phase = "feed" /\ call.op = "update") =>
        /\ Keys(call.before.parked_vehicles) \subseteq Keys(parked_vehicles)
        /\ \A i \in DOMAIN call.events : call.events[i].event_type # "vehicle_left"

\* C5: when the loitering scenario is over (a person fed every 100 ms for
\* 11 s) exactly one person_dwelling has been fired, and a person_dwelling
\* event always carries a dwell of at least loitering_time.
C5_OneDwelling ==
    /\ script.phase = "done" => Count(event_log, "person_dwelling") = 1
    /\ \A i \in DOMAIN call.events :
          call.events[i].event_type = "person_dwelling"
              => call.events[i].metadata["dwell"] >= Secs(loitering_time)

\* C6: a car fed in every cycle from construction is, 15 s after
\* construction, registered as parked, and neither vehicle_detected nor
\* vehicle_stopped has been fired.
StartupFeed == startup_scan_delay + 5

C6_StartupParked ==
    (script.phase = "feed" /\ script.start = startup_time + Cadence
     /\ now = startup_time + Secs(StartupFeed)) =>
        /\ Has(parked_vehicles, get_position_id(script.det[1].bbox))
        /\ Count(event_log, "vehicle_detected") = 0
        /\ Count(event_log, "vehicle_stopped") = 0

\* C7: a track's reported flag, once set, stays set while the track exists,
\* and over its lifetime a track is credited with at most one
\* person_dwelling and at most one vehicle_stopped.
C7_ReportedOnce ==
    /\ \A i \in DOMAIN call.before.objects, j \in DOMAIN objects :
          (call.before.objects[i].id = objects[j].id /\ call.before.objects[i].reported)
              => objects[j].reported
    /\ \A a, b \in DOMAIN credited_log :
          (credited_log[a].id = credited_log[b].id
           /\ credited_log[a].event_type = credited_log[b].event_type) => a = b

\* A reported vehicle track is matched again, a whole cooldown after its
\* vehicle_stopped, and nothing is fired for it.
C7_Witness ==
    /\ call.op = "update"
    /\ call.credited = << >>
    /\ now - last_events["vehicle_stopped"] >= Secs(event_cooldown)
    /\ \E i \in DOMAIN call.before.objects, j \in DOMAIN objects :
          /\ call.before.objects[i].id = objects[j].id
          /\ call.before.objects[i].reported
          /\ objects[j].class_name \in VehicleClasses
          /\ objects[j].last_seen = now
          /\ \E a \in DOMAIN credited_log : credited_log[a].id = objects[j].id

\* C8: _can_fire rejects when now - last_fired(type) < cooldown, and at
\* now - last_fired(type) = cooldown the cooldown test lets the call through
\* to the window test.
C8_CooldownBoundary ==
    call.op = "can_fire" =>
        /\ LastGate.now - LastGate.last < Secs(event_cooldown)
              => ~LastGate.ok /\ LastGate.window = -1
        /\ LastGate.now - LastGate.last = Secs(event_cooldown) => LastGate.window >= 0
        /\ (LastGate.now - LastGate.last = Secs(event_cooldown)
            /\ LastGate.window < max_notifications_per_minute) => LastGate.ok

\* _can_fire accepts a call made exactly one cooldown after the last
\* accepted call of the same type.
C8_Witness ==
    /\ call.op = "can_fire"
    /\ LastGate.now - LastGate.last = Secs(event_cooldown)
    /\ LastGate.ok
    /\ last_events[LastGate.event_type] = now

\* C9: no rolling 60 s window holds more than max_notifications_per_minute
\* accepted events, of whatever types; a call that finds that many accepted
\* in the last 60 s is rejected.
InWindow(t) == {i \in DOMAIN accepted_log :
                   accepted_log[i].time <= t /\ t - accepted_log[i].time < Secs(rate_window)}

C9_GlobalCap ==
    /\ \A i \in DOMAIN accepted_log :
          Cardinality(InWindow(accepted_log[i].time)) <= max_notifications_per_minute
    /\ (call.op = "can_fire" /\ LastGate.ok)
          => Cardinality(InWindow(now)) <= max_notifications_per_minute

\* A call passes the cooldown test, finds the window full, and is rejected.
C9_Witness ==
    /\ call.op = "can_fire"
    /\ LastGate.now - LastGate.last >= Secs(event_cooldown)
    /\ Cardinality(InWindow(now)) = max_notifications_per_minute
    /\ ~LastGate.ok

\* C10: an update() call during which camera_recently_moved() is true
\* removes no parked record and fires no vehicle_left.
C10_MovedKeepsParked ==
    (call.op = "update" /\ ptz /\ call.c1 = "moved") =>
        /\ Keys(call.before.parked_vehicles) \subseteq Keys(parked_vehicles)
        /\ \A i \in DOMAIN call.events : call.events[i].event_type # "vehicle_left"

\* Such a call with a parked record whose last_seen had expired.
C10_Witness ==
    /\ call.op = "update"
    /\ ptz
    /\ call.c1 = "moved"
    /\ \E i \in DOMAIN call.before.parked_vehicles :
          now - call.before.parked_vehicles[i].last_seen > Secs(parked_gone_timeout)

\* C11: the re-scan runs only in a cycle that comes after a cycle in which
\* the camera answered recently-moved; never before the first movement.
C11_RescanOnlyAfterMove ==
    (call.op = "update" /\ call.rescanned) => script.phase \in {"settling", "settled"}

\* A cycle before any movement, PTZ attached and settled, parked records
\* present: they are kept.
C11_Witness ==
    /\ call.op = "update"
    /\ ptz
    /\ script.phase = "free"
    /\ call.c1 = "settled"
    /\ call.before.parked_vehicles # << >>
    /\ ~call.rescanned
    /\ Keys(call.before.parked_vehicles) \subseteq Keys(parked_vehicles)

\* C12: the re-scan runs in exactly the first settled cycle after a
\* movement; at the end of that cycle every car/truck detection of the cycle
\* has a parked record with first_seen = last_seen = now, and no parked or
\* stopped record from before the cycle is left.
VehiclePids(detections) ==
    {get_position_id(detections[i].bbox) :
        i \in {j \in DOMAIN detections : detections[j].class_name \in VehicleClasses}}

C13_NoPersonWhileMoved ==
    (call.op = "update" /\ ptz /\ call.c2 = "moved") =>
        \A i \in DOMAIN call.events : call.events[i].event_type # "person_detected"

\* A person is first seen in such a cycle, with the person_detected
\* cooldown long over: a track is made for it and nothing is fired.
C13_Witness ==
    /\ call.op = "update"
    /\ ptz
    /\ call.c2 = "moved"
    /\ now - last_person_detected >= Secs(person_detected_cooldown)
    /\ \E i \in DOMAIN call.detections : call.detections[i].class_name = "person"
    /\ \E j \in DOMAIN objects :
          /\ objects[j].class_name = "person"
          /\ objects[j].first_seen = now
          /\ \A i \in DOMAIN call.before.objects : call.before.objects[i].id # objects[j].id
    /\ call.events = << >>

\* C14: package detections at one spot fire package_detected once per
\* location cooldown window: the first detection fires it, and any two
\* package_detected events are at least the cooldown apart, whether the
\* later detections matched the track or came after it was purged.
C14_OnePackageEvent ==
    /\ \A a, b \in DOMAIN event_log :
          (a < b /\ event_log[a].event_type = "package_detected"
                 /\ event_log[b].event_type = "package_detected")
              => event_log[b].time - event_log[a].time >= Secs(detection_location_cooldown)
    /\ (call.op = "update" /\ \E i \in DOMAIN call.detections :
                                  call.detections[i].class_name = "package")
          => Count(event_log, "package_detected") >= 1

\* The package's track was purged, the package is seen again inside the
\* window, a new track is made for it and nothing is fired.
C14_Witness ==
    /\ call.op = "update"
    /\ call.before.objects = << >>
    /\ Count(event_log, "package_detected") = 1
    /\ \E a \in DOMAIN event_log : now - event_log[a].time < Secs(detection_location_cooldown)
    /\ \E j \in DOMAIN objects : objects[j].class_name = "package" /\ objects[j].first_seen = now
    /\ call.events = << >>

\* C15: no two 'detected' events of one category are fired less than the
\* location cooldown apart at places that overlap with IoU >= 0.5.
DetectedTypes == {"person_detected", "vehicle_detected", "package_detected"}

C15_LocationDedup ==
    \A a, b \in DOMAIN event_log :
        (a < b /\ event_log[a].event_type \in DetectedTypes
               /\ event_log[b].event_type = event_log[a].event_type
               /\ event_log[b].time - event_log[a].time < Secs(detection_location_cooldown))
            => ~RatGe(iou(event_log[a].bbox, event_log[b].bbox), location_iou_threshold)

\* C16: _match answers no match when no track of det's class overlaps det
\* with IoU >= iou_threshold; otherwise it answers a track whose score (IoU,
\* plus 0.3 when both signatures are non-empty and equal) is the highest,
\* and among those with the highest score the one registered first.
Candidates(det) ==
    {i \in DOMAIN objects :
        /\ objects[i].class_name = det.class_name
        /\ RatGe(iou(det.bbox, objects[i].bbox), iou_threshold)}

ScoreOf(det, i) ==
    IF det.signature # "" /\ objects[i].signature # "" /\ det.signature = objects[i].signature
    THEN RatAdd(iou(det.bbox, objects[i].bbox), signature_boost)
    ELSE iou(det.bbox, objects[i].bbox)

C16_MatchBest ==
    call.op = "match" =>
        /\ Candidates(call.detections[1]) = {} => call.oid = NoMatch
        /\ Candidates(call.detections[1]) # {} =>
              \E i \in Candidates(call.detections[1]) :
                  /\ objects[i].id = call.oid
                  /\ \A j \in Candidates(call.detections[1]) :
                        /\ RatGe(ScoreOf(call.detections[1], i), ScoreOf(call.detections[1], j))
                        /\ RatGe(ScoreOf(call.detections[1], j), ScoreOf(call.detections[1], i))
                              => objects[i].id <= objects[j].id

\* Two tracks tie for the highest score and the one registered first is
\* the answer.
C16_Witness ==
    /\ call.op = "match"
    /\ \E i, j \in Candidates(call.detections[1]) :
          /\ i < j
          /\ RatGe(ScoreOf(call.detections[1], i), ScoreOf(call.detections[1], j))
          /\ RatGe(ScoreOf(call.detections[1], j), ScoreOf(call.detections[1], i))
          /\ objects[i].bbox # objects[j].bbox
          /\ call.oid = objects[i].id

\* C17: in every update() call each fired event is delivered to every
\* registered subscriber exactly once, in registration order, the events
\* one after the other, whether or not a subscriber raises; and the call
\* returns the events it would have returned with no subscriber at all.
DeliveredToAll(c, cbs) ==
    /\ Len(c.delivered) = Len(c.fired) * Len(cbs)
    /\ \A k \in DOMAIN c.delivered :
          /\ c.delivered[k].callback = ((k - 1) % Len(cbs)) + 1
          /\ c.delivered[k].event = c.fired[((k - 1) \div Len(cbs)) + 1]
          /\ c.delivered[k].raised <=> cbs[c.delivered[k].callback] = "raises"

C17_Subscribers ==
    [][call'.op = "update" =>
          /\ DeliveredToAll(call', callbacks)
          /\ call'.events =
                update([Self EXCEPT !.callbacks = << >>], call'.detections, now',
                       call'.c1, call'.c2).events]_vars

\* An update() call has fired two events with a raising subscriber
\* registered before a well-behaved one, and the latter got both.
C17_Witness ==
    /\ call.op = "update"
    /\ Len(callbacks) = 2 /\ callbacks[1] = "raises" /\ callbacks[2] = "ok"
    /\ Len(call.fired) = 2
    /\ \E a, b \in DOMAIN call.delivered :
          /\ a < b
          /\ call.delivered[a].callback = 2 /\ call.delivered[a].event = call.fired[1]
          /\ call.delivered[b].callback = 2 /\ call.delivered[b].event = call.fired[2]

\* C18: update() returns the events it handed to _fire, in that order; each
\* subscriber was called with exactly these events in this order; and the
\* list is empty when nothing was fired.
SeenBy(c, i) ==
    LET got == SelectSeq(c.delivered, LAMBDA d : d.callback = i)
    IN  [k \in DOMAIN got |-> got[k].event]

C18_ReturnsFired ==
    call.op = "update" =>
        /\ call.events = call.fired
        /\ \A i \in DOMAIN callbacks : SeenBy(call, i) = call.events
        /\ call.fired = << >> => call.events = << >>

\* An update() call with a subscriber registered returned two events of
\* different types.
C18_Witness ==
    /\ call.op = "update"
    /\ callbacks # << >>
    /\ Len(call.events) = 2
    /\ call.events[1].event_type # call.events[2].event_type
    /\ SeenBy(call, 1) = call.events

\* C19: at every point the ids of the registry, in registration order, are
\* strictly increasing and all below _next_id; _next_id never decreases and
\* every track a step adds gets an id at or above the _next_id before the
\* step, so that an id once given, purged or not, is never given again.
TrackIds(objs) == {objs[i].id : i \in DOMAIN objs}

C19_IdsNeverReused ==
    /\ [](/\ \A i \in DOMAIN objects : objects[i].id < next_id
          /\ \A i, j \in DOMAIN objects : i < j => objects[i].id < objects[j].id)
    /\ [][/\ next_id' >= next_id
          /\ \A id \in TrackIds(objects') \ TrackIds(objects) : id >= next_id]_vars

\* A track registered after another one was purged: an id below _next_id
\* was already gone from the registry before the call, and the call has
\* registered a track, with a larger id.
C19_Witness ==
    /\ call.op = "update"
    /\ \E gone \in 0..(next_id - 1) :
          /\ gone \notin TrackIds(objects)
          /\ gone \notin TrackIds(call.before.objects)
          /\ \E id \in TrackIds(objects) \ TrackIds(call.before.objects) : id > gone

\* C20: the API thread never reads the maps while an update() call is in
\* progress: no answer of get_current_detections is computed between the
\* two writes of a promotion.
C20_Serialized ==
    call.op = "get_current_detections" => script.phase # "promoting"

\* C21: for well-formed boxes iou(a, a) is 1, iou of disjoint boxes is 0,
\* and iou of a box with one that contains it is the quotient of the areas.
WellFormed(b) == b[1] < b[3] /\ b[2] < b[4]
Apart(a, b) == a[3] <= b[1] \/ b[3] <= a[1] \/ a[4] <= b[2] \/ b[4] <= a[2]
Within(inner, outer) ==
    outer[1] <= inner[1] /\ outer[2] <= inner[2] /\ inner[3] <= outer[3] /\ inner[4] <= outer[4]
Width(b) == b[3] - b[1]
Height(b) == b[4] - b[2]
IsQuotient(r, n, d) == r.den > 0 /\ r.num * d = n * r.den

C21_IouCases ==
    (call.op = "iou" /\ WellFormed(call.detections[1]) /\ WellFormed(call.detections[2])) =>
        /\ call.detections[1] = call.detections[2] => IsQuotient(call.ratio, 1, 1)
        /\ Apart(call.detections[1], call.detections[2]) => IsQuotient(call.ratio, 0, 1)
        /\ Within(call.detections[1], call.detections[2]) =>
              IsQuotient(call.ratio,
                         Width(call.detections[1]) * Height(call.detections[1]),
                         Width(call.detections[2]) * Height(call.detections[2]))
        /\ Within(call.detections[2], call.detections[1]) =>
              IsQuotient(call.ratio,
                         Width(call.detections[2]) * Height(call.detections[2]),
                         Width(call.detections[1]) * Height(call.detections[1]))

\* iou of a box with a larger one around it: strictly between 0 and 1.
C21_Witness ==
    /\ call.op = "iou"
    /\ WellFormed(call.detections[1]) /\ WellFormed(call.detections[2])
    /\ Within(call.detections[1], call.detections[2])
    /\ call.detections[1] # call.detections[2]
    /\ call.ratio.num > 0 /\ call.ratio.num < call.ratio.den

\* C22: iou gives a value for any two integer boxes, never an error; the
\* value is between 0 and 1, and it is 0 when a box is malformed or has no
\* area.
C22_IouTotal ==
    call.op = "iou" =>
        /\ call.ratio # ZeroDivision
        /\ call.ratio.den > 0
        /\ 0 <= call.ratio.num /\ call.ratio.num <= call.ratio.den
        /\ (~WellFormed(call.detections[1]) \/ ~WellFormed(call.detections[2]))
              => call.ratio.num = 0

\* A malformed box of negative area with a well-formed one of the opposite
\* area, the union being zero: the answer is 0.
C22_Witness ==
    /\ call.op = "iou"
    /\ call.detections[1][1] > call.detections[1][3]
    /\ WellFormed(call.detections[2])
    /\ Width(call.detections[1]) * Height(call.detections[1])
          + Width(call.detections[2]) * Height(call.detections[2]) = 0
    /\ call.ratio = RatZero

\* C23 as stated: in every update() call each stopped record that is
\* parking_time old when the call begins is gone from the stopped map and
\* in the parked map when the call returns, and the call has fired a
\* vehicle_parked event for it.
DueBefore(c, t) ==
    SelectSeq(c.before.stopped_vehicles, LAMBDA r : t - r.first_seen >= Secs(parking_time))

OfTypeAt(events, event_type, bbox) ==
    \E i \in DOMAIN events : events[i].event_type = event_type /\ events[i].bbox = bbox

C23_AlwaysPromoted ==
    call.op = "update" =>
        \A k \in DOMAIN DueBefore(call, now) :
            /\ \A i \in DOMAIN stopped_vehicles :
                  stopped_vehicles[i] # DueBefore(call, now)[k]
            /\ Has(parked_vehicles, get_position_id(DueBefore(call, now)[k].bbox))
            /\ OfTypeAt(call.events, "vehicle_parked", DueBefore(call, now)[k].bbox)

\* C23 amended: in an update() call during which the camera has not
\* recently moved and no re-scan ran, each stopped record that is
\* parking_time old when the call begins is gone from the stopped map when
\* the call returns; it is in the parked map under the cell of its bbox,
\* with its first_seen, unless it has not been seen for parked_gone_timeout;
\* the gate is asked once for each such record, in order, and a
\* vehicle_parked event is fired for the record exactly when the gate
\* lets it out.
ParkedGates(c) == SelectSeq(c.gate, LAMBDA g : g.event_type = "vehicle_parked")

C23_PromotedAndGated ==
    (call.op = "update" /\ ~(ptz /\ call.c1 = "moved") /\ ~call.rescanned) =>
        /\ Len(ParkedGates(call)) = Len(DueBefore(call, now))
        /\ \A k \in DOMAIN DueBefore(call, now) :
              /\ \A i \in DOMAIN stopped_vehicles :
                    stopped_vehicles[i] # DueBefore(call, now)[k]
              /\ now - DueBefore(call, now)[k].last_seen <= Secs(parked_gone_timeout) =>
                    /\ Has(parked_vehicles, get_position_id(DueBefore(call, now)[k].bbox))
                    /\ Get(parked_vehicles, get_position_id(DueBefore(call, now)[k].bbox)).first_seen
                          = DueBefore(call, now)[k].first_seen
              /\ ParkedGates(call)[k].ok
                    <=> OfTypeAt(call.events, "vehicle_parked", DueBefore(call, now)[k].bbox)

\* Two cars are promoted in one call: the first vehicle_parked is fired,
\* the second is held back by the cooldown.
C23_Witness ==
    /\ call.op = "update"
    /\ Len(DueBefore(call, now)) = 2
    /\ ParkedGates(call)[1].ok /\ ~ParkedGates(call)[2].ok
    /\ Len(parked_vehicles) = 2
    /\ stopped_vehicles = << >>
    /\ Count(call.events, "vehicle_parked") = 1

\* C24: _register_stopped_vehicle for a car or truck leaves the stopped map
\* as it is when a record exists at the grid cell of the detection;
\* otherwise it adds one record under that cell, first and last seen now,
\* and changes no other record.
C24_RegisterOnce ==
    (call.op = "register_stopped_vehicle"
        /\ call.detections[1].class_name \in VehicleClasses) =>
        IF Has(call.before.stopped_vehicles, get_position_id(call.detections[1].bbox))
        THEN stopped_vehicles = call.before.stopped_vehicles
        ELSE /\ Len(stopped_vehicles) = Len(call.before.stopped_vehicles) + 1
             /\ SubSeq(stopped_vehicles, 1, Len(call.before.stopped_vehicles))
                   = call.before.stopped_vehicles
             /\ Last(stopped_vehicles).pid = get_position_id(call.detections[1].bbox)
             /\ Last(stopped_vehicles).bbox = call.detections[1].bbox
             /\ Last(stopped_vehicles).first_seen = now
             /\ Last(stopped_vehicles).last_seen = now

\* A truck is registered in the cell where a car's stopped record is
\* already a while old: the record stays as it was.
C24_Witness ==
    /\ call.op = "register_stopped_vehicle"
    /\ call.detections[1].class_name = "truck"
    /\ Has(call.before.stopped_vehicles, get_position_id(call.detections[1].bbox))
    /\ Get(stopped_vehicles, get_position_id(call.detections[1].bbox)).first_seen < now
    /\ Get(stopped_vehicles, get_position_id(call.detections[1].bbox)).class = "car"

\* C25: when every detection of a frame is a car or truck that matches no
\* track and coincides with a parked or stopped record (IoU >= 0.15, or
\* equal signatures, or equal colours and IoU >= 0.05) as the parking
\* system of the call has left them, the call creates no track, leaves
\* _next_id as it is, fires nothing beyond the parking system's events, and
\* for each detection a record carries its bbox and last_seen = now.
Coincides(det, rec) ==
    \/ RatGe(iou(det.bbox, rec.bbox), stationary_iou)
    \/ det.signature # "" /\ det.signature = rec.signature
    \/ det.color # "" /\ det.color = rec.color
          /\ RatGe(iou(det.bbox, rec.bbox), stationary_color_iou)

AllKnown(mid, dets) ==
    /\ dets # << >>
    /\ \A k \in DOMAIN dets :
          /\ dets[k].class_name \in VehicleClasses
          /\ \A i \in DOMAIN mid.objects :
                mid.objects[i].class_name = dets[k].class_name
                    => ~RatGe(iou(dets[k].bbox, mid.objects[i].bbox), iou_threshold)
          /\ \/ \E i \in DOMAIN mid.parked_vehicles : Coincides(dets[k], mid.parked_vehicles[i])
             \/ \E i \in DOMAIN mid.stopped_vehicles : Coincides(dets[k], mid.stopped_vehicles[i])

Absorbed(mid, dets, objs, next, events, parked, stopped, t) ==
    /\ TrackIds(objs) \subseteq TrackIds(mid.objects)
    /\ next = mid.next_id
    /\ events = mid.events
    /\ \A k \in DOMAIN dets :
          \/ \E i \in DOMAIN parked : parked[i].bbox = dets[k].bbox /\ parked[i].last_seen = t
          \/ \E i \in DOMAIN stopped : stopped[i].bbox = dets[k].bbox /\ stopped[i].last_seen = t

AbsorbedAfter(mid, dets, objs, next, events, parked, stopped, t) ==
    AllKnown(mid, dets) => Absorbed(mid, dets, objs, next, events, parked, stopped, t)

C25_KnownAbsorbed ==
    [][call'.op = "update" =>
          AbsorbedAfter(update_parking_system(Self, VehicleDetections(call'.detections),
                                              now', call'.c1),
                        call'.detections, objects', next_id', call'.events,
                        parked_vehicles', stopped_vehicles', now')]_vars

\* A car whose track had been purged is seen again at its stopped record,
\* which was last seen a while ago: the record is refreshed, the registry
\* stays empty and nothing is fired.
C25_Witness ==
    /\ call.op = "update"
    /\ Len(call.detections) = 1
    /\ objects = << >> /\ call.before.objects = << >>
    /\ next_id > 0
    /\ call.events = << >>
    /\ \E i \in DOMAIN stopped_vehicles, j \in DOMAIN call.before.stopped_vehicles :
          /\ stopped_vehicles[i].pid = call.before.stopped_vehicles[j].pid
          /\ stopped_vehicles[i].bbox = call.detections[1].bbox
          /\ stopped_vehicles[i].last_seen = now
          /\ call.before.stopped_vehicles[j].last_seen < now

\* C26: when the one detection of a frame is a car or truck that matches
\* no track and coincides with no parked or stopped record, and the
\* detection history of its grid cell holds an entry less than
\* repeated_detection_window old, then after the call a parked record is
\* registered at the cell, no vehicle_detected has been fired and the
\* history of the cell is empty.
Fresh(mid, det) ==
    /\ det.class_name \in VehicleClasses
    /\ \A i \in DOMAIN mid.objects :
          mid.objects[i].class_name = det.class_name
              => ~RatGe(iou(det.bbox, mid.objects[i].bbox), iou_threshold)
    /\ \A i \in DOMAIN mid.parked_vehicles : ~Coincides(det, mid.parked_vehicles[i])
    /\ \A i \in DOMAIN mid.stopped_vehicles : ~Coincides(det, mid.stopped_vehicles[i])

Repeated(mid, det, t) ==
    \E i \in DOMAIN HistoryAt(mid.detection_history, get_position_id(det.bbox)) :
        t - HistoryAt(mid.detection_history, get_position_id(det.bbox))[i]
            < Secs(repeated_detection_window)

ParkedDirectly(mid, dets, parked, history, events, t) ==
    (Len(dets) = 1 /\ Fresh(mid, dets[1]) /\ Repeated(mid, dets[1], t)) =>
        /\ Has(parked, get_position_id(dets[1].bbox))
        /\ Count(events, "vehicle_detected") = 0
        /\ HistoryAt(history, get_position_id(dets[1].bbox)) = << >>

C26_RepeatedParked ==
    [][call'.op = "update" =>
          ParkedDirectly(update_parking_system(Self, VehicleDetections(call'.detections),
                                               now', call'.c1),
                         call'.detections, parked_vehicles', detection_history',
                         call'.events, now')]_vars

\* C27: any two person_detected events are at least
\* person_detected_cooldown apart and any two vehicle_detected events at
\* least vehicle_detected_cooldown, wherever their detections are.
DetectedCooldown(event_type) ==
    IF event_type = "person_detected" THEN Secs(person_detected_cooldown)
    ELSE Secs(vehicle_detected_cooldown)

C27_DetectedCooldowns ==
    \A a, b \in DOMAIN event_log :
        (a < b /\ event_log[a].event_type \in {"person_detected", "vehicle_detected"}
               /\ event_log[b].event_type = event_log[a].event_type)
            => event_log[b].time - event_log[a].time
                  >= DetectedCooldown(event_log[a].event_type)

\* Two vehicle_detected events exactly 10 s apart and two person_detected
\* events exactly 30 s apart, each pair at two different places.
C27_Witness ==
    /\ \E a, b \in DOMAIN event_log :
          /\ event_log[a].event_type = "vehicle_detected"
          /\ event_log[b].event_type = "vehicle_detected"
          /\ event_log[a].bbox # event_log[b].bbox
          /\ event_log[b].time - event_log[a].time = Secs(vehicle_detected_cooldown)
    /\ \E a, b \in DOMAIN event_log :
          /\ event_log[a].event_type = "person_detected"
          /\ event_log[b].event_type = "person_detected"
          /\ event_log[a].bbox # event_log[b].bbox
          /\ event_log[b].time - event_log[a].time = Secs(person_detected_cooldown)

\* C28: when the one detection of a frame is a package that matches no
\* track and the location dedup rejects it (nothing is fired), the cache
\* of its category holds its bbox with the time of the call.
C28_RejectedRecorded ==
    (call.op = "update" /\ Len(call.detections) = 1
        /\ call.detections[1].class_name = "package"
        /\ call.before.objects = << >>
        /\ call.events = << >>) =>
        \E i \in DOMAIN recent_detections["package"] :
            /\ recent_detections["package"][i].bbox = call.detections[1].bbox
            /\ recent_detections["package"][i].time = now

\* C29: when update() returns, no track is left that has been unseen for
\* longer than the staleness window of its class; a track of before the
\* call is gone only if it went unmatched and had been unseen for longer
\* than its window, and every other one is still there; a track the call
\* matched (last seen now) is there even if it had been unseen for longer
\* than its window; and the vehicle window is the longer one.
Window(class_name) ==
    IF class_name \in {"car", "truck"} THEN Secs(vehicle_stale_timeout)
    ELSE Secs(person_stale_timeout)

Survivor(obj) ==
    \E i \in DOMAIN objects : objects[i].id = obj.id

SeenNow(obj) ==
    \E i \in DOMAIN objects : objects[i].id = obj.id /\ objects[i].last_seen = now

C29_StalePurge ==
    /\ vehicle_stale_timeout > person_stale_timeout
    /\ call.op = "update" =>
          /\ \A i \in DOMAIN objects :
                now - objects[i].last_seen <= Window(objects[i].class_name)
          /\ \A j \in DOMAIN call.before.objects :
                Survivor(call.before.objects[j])
                    <=> \/ SeenNow(call.before.objects[j])
                        \/ now - call.before.objects[j].last_seen
                              <= Window(call.before.objects[j].class_name)

\* In one call a car's track, unseen for longer than the vehicle window, is
\* matched and stays, while a person's track, unseen as long, is purged.
C29_Witness ==
    /\ call.op = "update"
    /\ \E j \in DOMAIN call.before.objects :
          /\ call.before.objects[j].class_name = "car"
          /\ now - call.before.objects[j].last_seen > Secs(vehicle_stale_timeout)
          /\ SeenNow(call.before.objects[j])
    /\ \E j \in DOMAIN call.before.objects :
          /\ call.before.objects[j].class_name = "person"
          /\ ~Survivor(call.before.objects[j])

\* C30: the camera-dependent decisions of one update() call agree with
\* one reading of the PTZ object: a call whose parking system was
\* suspended because the camera had recently moved fires no
\* person_detected.
C30_OneReading ==
    (call.op = "update" /\ ptz /\ call.c1 = "moved") =>
        Count(call.events, "person_detected") = 0


\* The samples of a position history taken in the last loitering_time + 2 s.
RecentSamples(h, t) ==
    {i \in DOMAIN h : t - h[i][1] <= Secs(loitering_time + loitering_buffer)}

\* The square of the diagonal of the smallest box around the samples I of h.
SpreadSq(h, I) ==
    LET dx == CHOOSE d \in {h[i][2] - h[j][2] : i, j \in I} :
                  \A i, j \in I : h[i][2] - h[j][2] <= d
        dy == CHOOSE d \in {h[i][3] - h[j][3] : i, j \in I} :
                  \A i, j \in I : h[i][3] - h[j][3] <= d
    IN  dx * dx + dy * dy

\* The samples of h within the loitering radius of the point c.
InArea(h, c) ==
    {i \in DOMAIN h : DistSq(<<h[i][2], h[i][3]>>, c) <= loitering_radius * loitering_radius}

\* The time since the earliest sample of h within the radius of c.
MeasuredDwell(h, c, t) ==
    t - h[CHOOSE i \in InArea(h, c) : \A j \in InArea(h, c) : i <= j][1]

DwellingOf(obj, t) ==
    /\ obj.class_name = "person"
    /\ RecentSamples(obj.position_history, t) # {}
    /\ SpreadSq(obj.position_history, RecentSamples(obj.position_history, t))
          <= loitering_radius * loitering_radius
    /\ InArea(obj.position_history, bbox_center(obj.bbox)) # {}
    /\ MeasuredDwell(obj.position_history, bbox_center(obj.bbox), t) >= Secs(loitering_time)

\* C31: an update() call fires person_dwelling only for a person track
\* that was not reported before the call, whose positions of the last
\* loitering_time + 2 s lie in a box with a diagonal of at most
\* loitering_radius and whose earliest sample within loitering_radius of
\* its current position is at least loitering_time old; the event's dwell
\* is that age.
C31_DwellingMeasured ==
    call.op = "update" =>
        /\ \A k \in DOMAIN call.credited :
              call.credited[k].event_type = "person_dwelling" =>
                  /\ \E i \in DOMAIN call.before.objects :
                        /\ call.before.objects[i].id = call.credited[k].id
                        /\ ~call.before.objects[i].reported
                  /\ \E j \in DOMAIN objects :
                        /\ objects[j].id = call.credited[k].id
                        /\ DwellingOf(objects[j], now)
                        /\ \A e \in DOMAIN call.events :
                              call.events[e].event_type = "person_dwelling" =>
                                  call.events[e].metadata["dwell"]
                                      = MeasuredDwell(objects[j].position_history,
                                                      bbox_center(objects[j].bbox), now)
        /\ (\E e \in DOMAIN call.events : call.events[e].event_type = "person_dwelling")
              => \E k \in DOMAIN call.credited : call.credited[k].event_type = "person_dwelling"

\* A person_dwelling fired for a person who has walked out of the radius of
\* the oldest kept sample: the dwell is counted from a later one.
C31_Witness ==
    /\ call.op = "update"
    /\ \E e \in DOMAIN call.events :
          /\ call.events[e].event_type = "person_dwelling"
          /\ \E j \in DOMAIN objects :
                /\ objects[j].reported
                /\ call.events[e].metadata["dwell"] < now - objects[j].position_history[1][1]


\* The sample update() takes of a track in the call that has just returned.
SampleOf(obj) == <<now, bbox_center(obj.bbox)[1], bbox_center(obj.bbox)[2]>>

\* h is what is left of full when its first Len(full) - Len(h) samples go.
OldestDropped(h, full) ==
    /\ Len(h) <= Len(full)
    /\ \A k \in DOMAIN h : h[k] = full[k + Len(full) - Len(h)]
    /\ Len(h) < Len(full) => Len(h) = position_history_max

\* C32: when update() has returned, a person track's position history has
\* at most position_history_max samples with increasing times, it is the
\* history from before the call with the new sample appended and the
\* oldest samples dropped when it would grow longer, and a track of any
\* other class has an empty history.
C32_HistoryKept ==
    call.op = "update" =>
        \A j \in DOMAIN objects :
            /\ objects[j].class_name # "person" => objects[j].position_history = << >>
            /\ objects[j].class_name = "person" =>
                  /\ Len(objects[j].position_history) <= position_history_max
                  /\ \A a, b \in DOMAIN objects[j].position_history :
                        a < b => objects[j].position_history[a][1]
                                    < objects[j].position_history[b][1]
                  /\ \A i \in DOMAIN call.before.objects :
                        call.before.objects[i].id = objects[j].id =>
                            IF objects[j].last_seen = now
                            THEN OldestDropped(objects[j].position_history,
                                               Append(call.before.objects[i].position_history,
                                                      SampleOf(objects[j])))
                            ELSE objects[j].position_history
                                    = call.before.objects[i].position_history

\* A call that dropped the oldest sample of a person's full history while a
\* car was tracked too.
C32_Witness ==
    /\ call.op = "update"
    /\ \E j \in DOMAIN objects, i \in DOMAIN call.before.objects :
          /\ call.before.objects[i].id = objects[j].id
          /\ Len(call.before.objects[i].position_history) = position_history_max
          /\ Len(objects[j].position_history) = position_history_max
          /\ objects[j].position_history[1] = call.before.objects[i].position_history[2]
    /\ \E j \in DOMAIN objects : objects[j].class_name = "car"


\* The stopped records that are parking_time old at the time t.
Due(stopped, t) ==
    {i \in DOMAIN stopped : t - stopped[i].first_seen >= Secs(parking_time)}

\* C33: every vehicle_parked event an update() call returns is for a
\* stopped record that was parking_time old when the call began, with that
\* record's box and age, and there are no more of them than such records;
\* a call in which the re-scan after a camera move ran returns neither a
\* vehicle_parked nor a vehicle_left.  So a record put into the parked map
\* by the startup scan, by a repeated detection or by the re-scan comes
\* without an event, and the records the re-scan clears go without one.
C33_ParkedOnlyPromoted ==
    call.op = "update" =>
        /\ \A e \in DOMAIN call.events :
              call.events[e].event_type = "vehicle_parked" =>
                  \E i \in Due(call.before.stopped_vehicles, now) :
                      /\ call.before.stopped_vehicles[i].bbox = call.events[e].bbox
                      /\ call.events[e].metadata["parked_duration"]
                            = now - call.before.stopped_vehicles[i].first_seen
        /\ Count(call.events, "vehicle_parked")
              <= Cardinality(Due(call.before.stopped_vehicles, now))
        /\ call.rescanned =>
              /\ Count(call.events, "vehicle_parked") = 0
              /\ Count(call.events, "vehicle_left") = 0

\* Two records entered the parked map in a call that returned one
\* vehicle_parked.
C33_Witness ==
    /\ call.op = "update"
    /\ Count(call.events, "vehicle_parked") = 1
    /\ Cardinality(Keys(parked_vehicles) \ Keys(call.before.parked_vehicles)) = 2


\* The tracks of objs that are vehicles, were matched at t and are
\* vehicle_stop old: update() runs the vehicle_stopped block for those of
\* them that entered the call unreported.
AtStop(objs, t) ==
    {j \in DOMAIN objs : /\ objs[j].class_name \in VehicleClasses
                         /\ objs[j].last_seen = t
                         /\ t - objs[j].first_seen >= Secs(vehicle_stop)}

CreditedWith(log, event_type, oid) ==
    \E k \in DOMAIN log : log[k].event_type = event_type /\ log[k].id = oid

\* What one update() call makes of the tracks before, given the tracks,
\* the stopped map and the credits after.
StopDropped(before, objs, stopped, credits, log, t) ==
    /\ \A j \in AtStop(objs, t), i \in DOMAIN before :
          (before[i].id = objs[j].id /\ ~before[i].reported) =>
              /\ objs[j].reported
              /\ Has(stopped, get_position_id(objs[j].bbox))
    /\ \A k \in DOMAIN credits :
          credits[k].event_type = "vehicle_stopped" =>
              /\ \E j \in AtStop(objs, t) : objs[j].id = credits[k].id
              /\ \A i \in DOMAIN before :
                    before[i].id = credits[k].id =>
                        ~before[i].reported /\ ~CreditedWith(log, "vehicle_stopped", before[i].id)

\* C34: a vehicle track that is matched when it is vehicle_stop old leaves
\* the call reported and with a stopped record at its cell, whether the
\* gate let its vehicle_stopped out or not; and a call fires vehicle_stopped
\* only for a track that entered it unreported and never credited, so the
\* track whose event the gate rejected gets none later.
C34_StopDropped ==
    [][call'.op = "update" =>
          StopDropped(objects, objects', stopped_vehicles', call'.credited,
                      credited_log, now')]_vars

\* A car whose vehicle_stopped was rejected is matched again when the gate
\* would let a vehicle_stopped out, and none is fired.
C34_Witness ==
    /\ call.op = "update"
    /\ call.credited = << >>
    /\ now - last_events["vehicle_stopped"] >= Secs(event_cooldown)
    /\ Len(notification_times) < max_notifications_per_minute
    /\ \E j \in AtStop(objects, now) :
          /\ objects[j].reported
          /\ ~CreditedWith(credited_log, "vehicle_stopped", objects[j].id)


\* The person tracks of objs that were matched at t and are found
\* loitering there.
Loiterers(objs, t) ==
    {j \in DOMAIN objs : /\ objs[j].last_seen = t
                         /\ Len(objs[j].position_history) >= 3
                         /\ DwellingOf(objs[j], t)}

\* The gate turned a person_dwelling down in the call c.
DwellingRejected(c) ==
    \E g \in DOMAIN c.gate : c.gate[g].event_type = "person_dwelling" /\ ~c.gate[g].ok

\* What one update() call makes of the unreported person tracks before.
DwellingRetried(before, objs, c, t) ==
    \A i \in DOMAIN before, j \in DOMAIN objs :
        (before[i].id = objs[j].id /\ before[i].class_name = "person"
         /\ ~before[i].reported) =>
            /\ objs[j].reported <=> CreditedWith(c.credited, "person_dwelling", objs[j].id)
            /\ CreditedWith(c.credited, "person_dwelling", objs[j].id) => j \in Loiterers(objs, t)
            /\ (j \in Loiterers(objs, t) /\ ~objs[j].reported) => DwellingRejected(c)

\* The track oid is loitering, unreported, in a call where the gate turned
\* a person_dwelling down.
RejectedFor(oid) ==
    /\ call.op = "update"
    /\ DwellingRejected(call)
    /\ \E j \in Loiterers(objects, now) : objects[j].id = oid /\ ~objects[j].reported

MaxRetryIds == 2

\* C35: a person track that enters an update() call unreported leaves it
\* reported exactly when person_dwelling was fired for it; when it is found
\* loitering and is still unreported, the gate has turned a person_dwelling
\* down in the call; no track is ever credited with two; and a person who
\* stays and is matched in every frame is, after such a rejection,
\* eventually credited with a person_dwelling.
C35_DwellingRetried ==
    /\ [][call'.op = "update" => DwellingRetried(objects, objects', call', now')]_vars
    /\ [](\A a, b \in DOMAIN credited_log :
             (credited_log[a].id = credited_log[b].id
              /\ credited_log[a].event_type = "person_dwelling"
              /\ credited_log[b].event_type = "person_dwelling") => a = b)
    /\ \A oid \in 0..MaxRetryIds :
          RejectedFor(oid) ~> CreditedWith(credited_log, "person_dwelling", oid)

\* The person whose person_dwelling the gate turned down gets it in a later
\* call, a cooldown after the other person's.
C35_Witness ==
    /\ call.op = "update"
    /\ Count(credited_log, "person_dwelling") = 2
    /\ Count(call.credited, "person_dwelling") = 1
    /\ \E j \in DOMAIN objects :
          /\ CreditedWith(call.credited, "person_dwelling", objects[j].id)
          /\ call.events[1].metadata["dwell"] >= Secs(loitering_time + event_cooldown)


\* The timestamps of times that are less than rate_window old at t.
StillInWindow(times, t) == SelectSeq(times, LAMBDA x : t - x < Secs(rate_window))

\* What a _can_fire call answering g at t makes of the last-fired times and
\* of the window.
GateRecords(g, last, times, last_after, times_after, t) ==
    IF g.ok
    THEN /\ last_after = [last EXCEPT ![g.event_type] = t]
         /\ times_after = Append(StillInWindow(times, t), t)
    ELSE /\ last_after = last
         /\ times_after \in {times, StillInWindow(times, t)}
         /\ Len(times_after) <= Len(times)

\* C36: a _can_fire call that rejects leaves every last-fired time as it
\* was and adds no timestamp to the window (a rejection by the cap leaves
\* the window pruned of the timestamps older than rate_window); a call that
\* accepts sets the last-fired time of its type to now and appends now to
\* the pruned window.
C36_RejectRecordsNothing ==
    [][call'.op = "can_fire" =>
          GateRecords(call'.gate[Len(call'.gate)], last_events, notification_times,
                      last_events', notification_times', now')]_vars

\* A call rejected by the cap after four accepted ones, the oldest of which
\* has left the window.
C36_Witness ==
    /\ call.op = "can_fire"
    /\ ~LastGate.ok
    /\ LastGate.window = max_notifications_per_minute
    /\ Len(accepted_log) = max_notifications_per_minute + 1
    /\ Len(notification_times) = max_notifications_per_minute
    /\ last_events[LastGate.event_type] < now


\* The records of a map not seen for more than parked_gone_timeout at t.
Expired(records, t) ==
    {i \in DOMAIN records : t - records[i].last_seen > Secs(parked_gone_timeout)}

\* The event e announces the leaving of the record r at t.
Announces(e, r, t) ==
    /\ e.event_type = "vehicle_left"
    /\ e.bbox = r.bbox
    /\ e.metadata["parked_duration"] = t - r.first_seen

\* C37: an update() call whose parking system is not suspended by camera
\* movement leaves no parked record unseen for more than
\* parked_gone_timeout, however many there were; it returns at most one
\* vehicle_left, and every vehicle_left it returns is for a record that
\* was in the parked or stopped map, expired, when the call began.  So a
\* record removed without its event gets none later.
C37_OneLeftPerCycle ==
    call.op = "update" =>
        /\ ~(ptz /\ call.c1 = "moved") => Expired(parked_vehicles, now) = {}
        /\ Count(call.events, "vehicle_left") <= 1
        /\ \A e \in DOMAIN call.events :
              call.events[e].event_type = "vehicle_left" =>
                  \/ \E i \in Expired(call.before.parked_vehicles, now) :
                        Announces(call.events[e], call.before.parked_vehicles[i], now)
                  \/ \E i \in Expired(call.before.stopped_vehicles, now) :
                        Announces(call.events[e], call.before.stopped_vehicles[i], now)

\* Two parked records expired in one call: both are gone and one
\* vehicle_left was returned.
C37_Witness ==
    /\ call.op = "update"
    /\ Cardinality(Expired(call.before.parked_vehicles, now)) = 2
    /\ parked_vehicles = << >>
    /\ Count(call.events, "vehicle_left") = 1


\* Two records are of different vehicles: of different classes, or too far
\* apart for _is_known_stationary_vehicle to take one for the other.
DifferentVehicle(a, b) ==
    a.class # b.class \/ ~RatGe(iou(a.bbox, b.bbox), stationary_iou)

\* The record r is in the map parked, or a record of the same vehicle is
\* under its key.
StillParked(parked, r) ==
    \E j \in DOMAIN parked :
        /\ parked[j].pid = r.pid
        /\ (parked[j].first_seen = r.first_seen /\ parked[j].class = r.class)
              \/ ~DifferentVehicle(parked[j], r)

\* What the parking system of a call (mid is the detector as it leaves it)
\* makes of the parked map: after a re-scan every vehicle of the frame has
\* its record; otherwise every record that has not expired is still there.
NeverReplaced(parked, mid, dets, t) ==
    IF mid.rescanned
    THEN \A k \in DOMAIN dets :
             \E j \in DOMAIN mid.parked_vehicles :
                 /\ mid.parked_vehicles[j].bbox = dets[k].bbox
                 /\ mid.parked_vehicles[j].class = dets[k].class_name
    ELSE \A i \in DOMAIN parked :
             i \notin Expired(parked, t) => StillParked(mid.parked_vehicles, parked[i])

\* C38: the parking system of an update() call puts no record into the
\* parked map in the place of the record of a different vehicle: the
\* vehicles the re-scan registers all have their record when it is done,
\* and outside a re-scan a parked record that has not expired stays, or
\* gives way to a record of the same vehicle.
C38_NeverReplaced ==
    [][call'.op = "update" =>
          NeverReplaced(parked_vehicles,
                        update_parking_system(Self, VehicleDetections(call'.detections),
                                              now', call'.c1),
                        VehicleDetections(call'.detections), now')]_vars


\* The tracks of a call made in it: first seen now, under an id no track
\* had before.
MadeNow(c, objs, t) ==
    {j \in DOMAIN objs : /\ objs[j].first_seen = t
                         /\ \A i \in DOMAIN c.before.objects :
                               c.before.objects[i].id # objs[j].id}

\* C39: every person detection of an update() call has a track when the
\* call returns, camera in motion or not; and a call returns
\* person_detected only for a person whose track it has made, with the
\* camera settled.  So the person whose first sighting was suppressed has
\* a track from then on, and while the detections match it no
\* person_detected follows.
C39_SuppressedDropped ==
    call.op = "update" =>
        /\ \A i \in DOMAIN call.detections :
              call.detections[i].class_name = "person" =>
                  \E j \in DOMAIN objects :
                      /\ objects[j].class_name = "person"
                      /\ objects[j].bbox = call.detections[i].bbox
                      /\ objects[j].last_seen = now
        /\ \A e \in DOMAIN call.events :
              call.events[e].event_type = "person_detected" =>
                  /\ ~(ptz /\ call.c2 # "settled")
                  /\ \E j \in MadeNow(call, objects, now) :
                        /\ objects[j].class_name = "person"
                        /\ objects[j].bbox = call.events[e].bbox

\* The camera has settled, no person_detected was ever fired, and a person
\* whose track was made while the camera was in motion is matched again:
\* nothing is fired.
C39_Witness ==
    /\ call.op = "update"
    /\ ptz
    /\ call.c2 = "settled"
    /\ camera_has_moved
    /\ Count(event_log, "person_detected") = 0
    /\ call.events = << >>
    /\ \E j \in DOMAIN objects :
          /\ objects[j].class_name = "person"
          /\ objects[j].last_seen = now
          /\ objects[j].first_seen < now

====
